---- MODULE Spec2Model ----
(***************************************************************************)
(* Verification model of the NBA next-game predictor core:                 *)
(*   backend/app/ml/predictor.py              SafePerformancePredictor     *)
(*   backend/app/ml/points_feature_engineer.py PointsFeatureEngineer       *)
(*   backend/app/ml/ensemble_points.py        EnsemblePointsPredictor      *)
(*                                                                         *)
(* Numbers.  Every cell of a data frame is an exact rational <<n, d>> with *)
(* d > 0 in lowest terms; NaN is <<0, 0>>.  A standard deviation is kept   *)
(* as its square (the sample variance), and a quantity that divides by a   *)
(* standard deviation is kept as the tuple of its rational arguments, so   *)
(* two cells are equal in the model only if they are equal in the code.    *)
(***************************************************************************)
EXTENDS Integers, Sequences, FiniteSets, TLC

VARIABLES
    stats_df,      \* feature pipeline: the game log handed to the transform
    stats_df2,     \* the same game log with one game's box score rewritten
    feat,          \* the transform's output for stats_df
    feat2,         \* the transform's output for stats_df2
    fe_pc          \* which transform produced feat: "input" | "predictor" | "engineer"

fe_vars == <<stats_df, stats_df2, feat, feat2, fe_pc>>

VARIABLES
    disk_models,       \* models_dir/<target>_model.joblib, per target
    disk_metrics,      \* models_dir/metrics.joblib
    disk_ensemble,     \* models_dir/points_ensemble_model.joblib
    models,            \* SafePerformancePredictor.models
    feature_sets,      \* SafePerformancePredictor.feature_sets
    metrics,           \* SafePerformancePredictor.metrics
    _models_loaded,    \* SafePerformancePredictor._models_loaded
    points_ensemble,   \* SafePerformancePredictor.points_ensemble
    _ensemble_loaded,  \* SafePerformancePredictor._ensemble_loaded
    pr_pc,             \* the last call on the predictor and how it ended
    predictions,       \* the dictionary the last predict returned
    model_input,       \* per target, the frame the last predict handed to its model
    served_by,         \* per target, "ensemble" or "single": what answered in the last predict
    raw_preds,         \* per target, raw_pred of the last predict: the value before clipping
    request,           \* the arguments of the last predict call
    train_input,       \* the table the last train call was given
    fitted,            \* the targets the last train call fitted and saved a model for
    log                \* the log records of the last call

disk_vars == <<disk_models, disk_metrics, disk_ensemble>>
obj_vars == <<models, feature_sets, metrics, _models_loaded, points_ensemble, _ensemble_loaded>>
out_vars == <<pr_pc, predictions, model_input, served_by, raw_preds, request, train_input,
              fitted, log>>
VARIABLES
    ens_disk,          \* points_ensemble_model.joblib of a stand-alone ensemble
    ens_self,          \* a stand-alone EnsemblePointsPredictor
    ens_pc,            \* "idle" | "loaded" | "load_failed" | "predicted"
    ens_ppg,           \* player_avg_ppg of its last predict call
    ens_result         \* what its last predict call computed

ens_vars == <<ens_disk, ens_self, ens_pc, ens_ppg, ens_result>>

pr_vars == <<disk_vars, obj_vars, out_vars>>

VARIABLES
    tr_pc,             \* the training job: "off" | "idle" | "loop" | "ensemble"
    tr_k,              \* how many targets the loop of train has gone through
    tr_run,            \* what the train call in progress holds in memory
    tr_table,          \* its stats_df
    run_no,            \* the number of the training run started last
    trained_at,        \* per model file and for the ensemble file, the run that wrote it
    last_trained,      \* the run that wrote metrics.joblib
    seen               \* what the predictor that loaded last found in models_dir

pub_vars == <<tr_pc, tr_k, tr_run, tr_table, run_no, trained_at, last_trained, seen>>

VARIABLES
    calls              \* per request handler, the predict call it is in

serve_vars == <<calls>>

VARIABLES
    cmp_pc,            \* the comparator: "off" | "new" | "ready" | "predicted"
    cmp_dir,           \* its models_dir: per stat, the file <stat>_model.joblib
    cmp_models,        \* self.models of the comparator
    cmp_features,      \* the player_features of the last predict_player_stats
    cmp_predictions    \* what that call returned

cmp_vars == <<cmp_pc, cmp_dir, cmp_models, cmp_features, cmp_predictions>>

VARIABLES
    _cache,            \* SimpleCache._cache: key -> (value, expires_at)
    _lock,             \* the thread that holds SimpleCache._lock, or "free"
    utcnow,            \* the clock, in seconds
    threads,           \* per thread, the cache call it is in
    latest_set,        \* per key, the latest completed set if nothing deleted or cleared it since
    set_no             \* how many sets were called; each stores its own number as the value

cache_vars == <<_cache, _lock, utcnow, threads, latest_set, set_no>>

VARIABLES
    fit_pc,            \* a training routine over rows: "off" | "ready" | "done"
    df_clean,          \* the rows it trains on, in frame order
    fit_rows             \* which rows went where: the split, every fit, the fill median

fit_vars == <<fit_pc, df_clean, fit_rows>>

\* what the actions of one component leave alone: the other components
not_fe == <<pr_vars, ens_vars, pub_vars, serve_vars, cmp_vars, cache_vars, fit_vars>>
not_pr == <<fe_vars, ens_vars, pub_vars, serve_vars, cmp_vars, cache_vars, fit_vars>>
not_ens == <<fe_vars, pr_vars, pub_vars, serve_vars, cmp_vars, cache_vars, fit_vars>>
not_pub == <<fe_vars, ens_vars, serve_vars, cmp_vars, cache_vars, fit_vars>>
not_serve == <<fe_vars, ens_vars, pub_vars, cmp_vars, cache_vars, fit_vars>>
not_cmp == <<fe_vars, pr_vars, ens_vars, pub_vars, serve_vars, cache_vars, fit_vars>>
not_cache == <<fe_vars, pr_vars, ens_vars, pub_vars, serve_vars, cmp_vars, fit_vars>>
not_fit == <<fe_vars, pr_vars, ens_vars, pub_vars, serve_vars, cmp_vars, cache_vars>>

-----------------------------------------------------------------------------
(* Bounds *)
MaxGames == 5          \* longest game log of the feature pipeline
MaxRuns == 2           \* training runs of the publication model
MaxClock == 2          \* seconds the cache model runs for
MaxSets == 2           \* set calls of the cache model

-----------------------------------------------------------------------------
(* Exact rational arithmetic (numpy float64 cells) *)
Abs(x) == IF x < 0 THEN -x ELSE x
Max2(a, b) == IF a >= b THEN a ELSE b
Min2(a, b) == IF a <= b THEN a ELSE b

RECURSIVE GCD(_, _)
GCD(a, b) == IF b = 0 THEN a ELSE GCD(b, a % b)

NaN == <<0, 0>>
IsNaN(r) == r[2] = 0
Rat(n, d) ==
    IF d = 0 THEN NaN
    ELSE LET g == GCD(Abs(n), Abs(d))
             s == IF d < 0 THEN -1 ELSE 1
         IN  <<(s * n) \div g, (s * d) \div g>>
RInt(v) == <<v, 1>>
\* a/b + c/d over the least common denominator (keeps the terms small)
RAdd(a, b) ==
    IF IsNaN(a) \/ IsNaN(b) THEN NaN
    ELSE LET g == GCD(a[2], b[2])
         IN  Rat(a[1] * (b[2] \div g) + b[1] * (a[2] \div g), (a[2] \div g) * b[2])
RNeg(a) == IF IsNaN(a) THEN NaN ELSE <<-a[1], a[2]>>
RSub(a, b) == RAdd(a, RNeg(b))
\* a/b * c/d, cancelling across before multiplying
RMul(a, b) ==
    IF IsNaN(a) \/ IsNaN(b) THEN NaN
    ELSE LET g1 == GCD(Abs(a[1]), b[2])
             g2 == GCD(Abs(b[1]), a[2])
         IN  Rat((a[1] \div g1) * (b[1] \div g2), (a[2] \div g2) * (b[2] \div g1))
RDiv(a, b) ==
    IF IsNaN(a) \/ IsNaN(b) \/ b[1] = 0 THEN NaN
    ELSE RMul(a, IF b[1] < 0 THEN <<-b[2], -b[1]>> ELSE <<b[2], b[1]>>)
RLt(a, b) == ~IsNaN(a) /\ ~IsNaN(b) /\ a[1] * b[2] < b[1] * a[2]
RGt(a, b) == RLt(b, a)
RFillNa(a, v) == IF IsNaN(a) THEN v ELSE a
Tenth == <<1, 10>>

RECURSIVE RSum(_)
RSum(xs) == IF Len(xs) = 0 THEN RInt(0) ELSE RAdd(Head(xs), RSum(Tail(xs)))

RECURSIVE RMaxSeq(_)
RMaxSeq(xs) ==
    IF Len(xs) = 1 THEN xs[1]
    ELSE LET m == RMaxSeq(Tail(xs)) IN IF RLt(xs[1], m) THEN m ELSE xs[1]

RECURSIVE RMinSeq(_)
RMinSeq(xs) ==
    IF Len(xs) = 1 THEN xs[1]
    ELSE LET m == RMinSeq(Tail(xs)) IN IF RLt(m, xs[1]) THEN m ELSE xs[1]

RECURSIVE IPow(_, _)
IPow(b, e) == IF e = 0 THEN 1 ELSE b * IPow(b, e - 1)

\* the function f as an explicit table of its values (evaluated once)
Materialize(f) == <<>> @@ f

SeqToSet(xs) == {xs[k] : k \in 1..Len(xs)}

-----------------------------------------------------------------------------
(* pandas Series operations; a Series is a sequence of rationals *)

\* the last w values up to and including position t
WindowAt(x, t, w) == SubSeq(x, Max2(1, t - w + 1), t)

MeanOf(xs) == RDiv(RSum(xs), RInt(Len(xs)))

\* sample variance (ddof = 1), the square of pandas .std()
VarOf(xs) ==
    LET n  == Len(xs)
        m  == MeanOf(xs)
        sq == Materialize([k \in 1..n |-> RMul(RSub(xs[k], m), RSub(xs[k], m))])
    IN  IF n < 2 THEN NaN ELSE RDiv(RSum(sq), RInt(n - 1))

\* x.rolling(w, min_periods = mp).mean()
RollingMean(x, w, mp) ==
    Materialize([t \in 1..Len(x) |->
        LET win == WindowAt(x, t, w) IN IF Len(win) < mp THEN NaN ELSE MeanOf(win)])

\* x.rolling(w, min_periods = mp).std(), squared
RollingVar(x, w, mp) ==
    Materialize([t \in 1..Len(x) |->
        LET win == WindowAt(x, t, w) IN IF Len(win) < mp THEN NaN ELSE VarOf(win)])

RollingMax(x, w) == Materialize([t \in 1..Len(x) |-> RMaxSeq(WindowAt(x, t, w))])
RollingMin(x, w) == Materialize([t \in 1..Len(x) |-> RMinSeq(WindowAt(x, t, w))])

\* x.rolling(w, min_periods = 1).apply(lambda y: (y > thr).sum())
RollingCountOver(x, w, thr) ==
    Materialize([t \in 1..Len(x) |->
        LET win == WindowAt(x, t, w)
        IN  RInt(Cardinality({k \in 1..Len(win) : RGt(win[k], RInt(thr))}))])

RollingCountUnder(x, w, thr) ==
    Materialize([t \in 1..Len(x) |->
        LET win == WindowAt(x, t, w)
        IN  RInt(Cardinality({k \in 1..Len(win) : RLt(win[k], RInt(thr))}))])

\* x.expanding().mean() and x.expanding().std() squared
ExpandingMean(x) == Materialize([t \in 1..Len(x) |-> MeanOf(SubSeq(x, 1, t))])
ExpandingVar(x) == Materialize([t \in 1..Len(x) |-> VarOf(SubSeq(x, 1, t))])

\* x.ewm(span = s, min_periods = 1).mean(), adjust = True:
\*   y_t = sum_i (1-a)^i x_(t-i) / sum_i (1-a)^i,  a = 2/(s+1), 1-a = (s-1)/(s+1)
EwmMean(x, span) ==
    Materialize([t \in 1..Len(x) |->
        LET wgt(i) == Rat(IPow(span - 1, i), IPow(span + 1, i))
            num == RSum([k \in 1..t |-> RMul(wgt(t - k), x[k])])
            den == RSum([k \in 1..t |-> wgt(t - k)])
        IN  RDiv(num, den)])

\* x.shift(1)
Shift1(x) == Materialize([t \in 1..Len(x) |-> IF t = 1 THEN NaN ELSE x[t - 1]])

SeriesSub(a, b) == Materialize([t \in 1..Len(a) |-> RSub(a[t], b[t])])

-----------------------------------------------------------------------------
(* Data frames: a sequence of rows, a row is a function column name -> cell *)

Columns(df) == IF Len(df) = 0 THEN {} ELSE DOMAIN df[1]
HasCol(df, c) == c \in Columns(df)
Col(df, c) == Materialize([i \in 1..Len(df) |-> df[i][c]])

\* df[c] = series for every c in DOMAIN new; an existing column is overwritten
Assign(df, new) == Materialize([i \in 1..Len(df) |-> [c \in DOMAIN new |-> new[c][i]] @@ df[i]])

\* the rows of df in ascending order of Less, rows that compare equal keeping
\* their frame order
SortRows(df, Less(_, _)) ==
    LET n == Len(df)
        rank(i) == 1 + Cardinality({j \in 1..n :
                        \/ Less(df[j], df[i])
                        \/ (~Less(df[i], df[j]) /\ j < i)})
    IN  [p \in 1..n |-> df[CHOOSE i \in 1..n : rank(i) = p]]

\* df.sort_values('game_date')
SortByDate(df) ==
    SortRows(df, LAMBDA a, b : RLt(a["game_date"], b["game_date"]))

\* df.sort_values(['player_id', 'game_date'])
SortByPlayerDate(df) ==
    SortRows(df, LAMBDA a, b :
        \/ RLt(a["player_id"], b["player_id"])
        \/ /\ a["player_id"] = b["player_id"]
           /\ RLt(a["game_date"], b["game_date"]))

\* the positions of the rows of row i's player, in frame order
RECURSIVE SelectIdx(_, _, _)
SelectIdx(df, pid, k) ==
    IF k > Len(df) THEN <<>>
    ELSE IF df[k]["player_id"] = pid THEN <<k>> \o SelectIdx(df, pid, k + 1)
    ELSE SelectIdx(df, pid, k + 1)

\* df.groupby('player_id')[c].transform(F)
GroupTransform(df, c, F(_)) ==
    LET pids == {df[i]["player_id"] : i \in 1..Len(df)}
        idx  == Materialize([p \in pids |-> SelectIdx(df, p, 1)])
        res  == Materialize([p \in pids |->
                    F(Materialize([k \in 1..Len(idx[p]) |-> df[idx[p][k]][c]]))])
    IN  Materialize([i \in 1..Len(df) |->
            LET p == df[i]["player_id"]
            IN  res[p][CHOOSE k \in 1..Len(idx[p]) : idx[p][k] = i]])

\* df.groupby('player_id').cumcount()
GroupCumcount(df) ==
    Materialize([i \in 1..Len(df) |->
        RInt(Cardinality({k \in 1..(i - 1) : df[k]["player_id"] = df[i]["player_id"]}))])

-----------------------------------------------------------------------------
(* SafePerformancePredictor.create_features *)

StatPrefix == {<<"points", "pts">>, <<"rebounds", "reb">>, <<"assists", "ast">>, <<"minutes", "min">>}
PredWindows == {5, 10, 15}
ShootingCols == {"fg_pct", "fg3_pct", "ft_pct"}

\* every derived column of create_features: its name, the raw column it
\* aggregates and how
PredDerived ==
    {[name |-> p[2] \o "_avg_" \o ToString(w), col |-> p[1], kind |-> "rolling", window |-> w]
        : p \in StatPrefix, w \in PredWindows}
    \cup {[name |-> c \o "_avg_10", col |-> c, kind |-> "rolling", window |-> 10] : c \in ShootingCols}
    \cup {[name |-> "season_" \o p[2] \o "_avg", col |-> p[1], kind |-> "season", window |-> 0]
        : p \in StatPrefix}

\* the rolling mean without its one-game lag
LaggedRollingMean_unshifted(x, w) == RollingMean(x, w, 1)

\* the lagged rolling mean that waits for a full window
LaggedRollingMean_full_window(x, w) == Shift1(RollingMean(x, w, w))

\* df[col].rolling(window, min_periods=1).mean().shift(1)
LaggedRollingMean(x, w) == Shift1(RollingMean(x, w, 1))

\* df[col].expanding().mean().shift(1)
LaggedExpandingMean(x) == Shift1(ExpandingMean(x))

create_features(stats) ==
    IF Len(stats) = 0 THEN stats
    ELSE
    LET df   == IF HasCol(stats, "game_date") THEN SortByDate(stats) ELSE stats
        made == {d \in PredDerived : d.col \in Columns(df)}
        agg  == Materialize([n \in {d.name : d \in made} |->
                    LET d == CHOOSE d \in made : d.name = n
                    IN  IF d.kind = "rolling"
                        THEN LaggedRollingMean(Col(df, d.col), d.window)
                        ELSE LaggedExpandingMean(Col(df, d.col))])
        ctx  == Materialize([n \in {"rest_days", "is_home", "opponent_def_rating"} |->
                    Materialize([i \in 1..Len(df) |->
                        IF n \in Columns(df) THEN df[i][n]
                        ELSE IF n = "opponent_def_rating" THEN RInt(110) ELSE RInt(1)])])
    IN  Assign(Assign(df, agg), ctx)

-----------------------------------------------------------------------------
(* PointsFeatureEngineer *)

\* a cell that the code computes from a standard deviation, kept as the
\* tuple of its arguments; NaN as soon as one argument is NaN
Sym2(a, b) == IF IsNaN(a) \/ IsNaN(b) THEN <<NaN, NaN>> ELSE <<a, b>>
Sym3(a, b, c) == IF IsNaN(a) \/ IsNaN(b) \/ IsNaN(c) THEN <<NaN, NaN, NaN>> ELSE <<a, b, c>>

WinName(stem, w) == stem \o "_" \o ToString(w)

_create_shot_volume_features(df) ==
    IF ~HasCol(df, "minutes") THEN df
    ELSE
    LET ppm  == [i \in 1..Len(df) |-> RDiv(df[i]["points"], RAdd(df[i]["minutes"], Tenth))]
        df1  == Assign(df, [n \in {"pts_per_min"} |-> ppm])
        roll == [n \in {WinName("pts_per_min_avg", w) : w \in {3, 5, 10}}
                   \cup {WinName("min_avg", w) : w \in {3, 5, 10}} |->
                    LET w == CHOOSE w \in {3, 5, 10} :
                                 n \in {WinName("pts_per_min_avg", w), WinName("min_avg", w)}
                    IN  IF n = WinName("min_avg", w)
                        THEN GroupTransform(df1, "minutes", LAMBDA x : Shift1(RollingMean(x, w, 1)))
                        ELSE GroupTransform(df1, "pts_per_min", LAMBDA x : Shift1(RollingMean(x, w, 1)))]
        vol  == "min_volatility" :>
                    GroupTransform(df1, "minutes", LAMBDA x : Shift1(RollingVar(x, 5, 2)))
        trd  == "min_trend" :>
                    GroupTransform(df1, "minutes", LAMBDA x :
                        SeriesSub(Shift1(RollingMean(x, 3, 1)), Shift1(RollingMean(x, 10, 3))))
    IN  Assign(df1, roll @@ vol @@ trd)

ShotVolumeNames(df) ==
    IF ~HasCol(df, "minutes") THEN <<>>
    ELSE <<"pts_per_min_avg_3", "pts_per_min_avg_5", "pts_per_min_avg_10",
           "min_avg_3", "min_avg_5", "min_avg_10", "min_volatility", "min_trend">>

_create_efficiency_features(df) ==
    LET fg  == IF ~HasCol(df, "fg_pct") THEN <<>>
               ELSE [n \in {WinName("fg_pct_avg", w) : w \in {3, 5, 10}} |->
                        LET w == CHOOSE w \in {3, 5, 10} : n = WinName("fg_pct_avg", w)
                        IN  GroupTransform(df, "fg_pct", LAMBDA x : Shift1(RollingMean(x, w, 1)))]
                    @@ ("fg_pct_volatility" :>
                        GroupTransform(df, "fg_pct", LAMBDA x : Shift1(RollingVar(x, 10, 3))))
        fg3 == IF ~HasCol(df, "fg3_pct") THEN <<>>
               ELSE [n \in {WinName("fg3_pct_avg", w) : w \in {5, 10}} |->
                        LET w == CHOOSE w \in {5, 10} : n = WinName("fg3_pct_avg", w)
                        IN  GroupTransform(df, "fg3_pct", LAMBDA x : Shift1(RollingMean(x, w, 1)))]
        ft  == IF ~HasCol(df, "ft_pct") THEN <<>>
               ELSE "ft_pct_avg_10" :>
                        GroupTransform(df, "ft_pct", LAMBDA x : Shift1(RollingMean(x, 10, 1)))
    IN  Assign(df, fg @@ fg3 @@ ft)

EfficiencyNames(df) ==
    (IF HasCol(df, "fg_pct")
        THEN <<"fg_pct_avg_3", "fg_pct_avg_5", "fg_pct_avg_10", "fg_pct_volatility">> ELSE <<>>)
    \o (IF HasCol(df, "fg3_pct") THEN <<"fg3_pct_avg_5", "fg3_pct_avg_10">> ELSE <<>>)
    \o (IF HasCol(df, "ft_pct") THEN <<"ft_pct_avg_10">> ELSE <<>>)

\* df[df['is_home'] == flag].groupby('player_id')['points'].transform('mean'),
\* aligned back on the frame's index: NaN on the rows the filter dropped
VenuePointsMean(df, flag) ==
    [i \in 1..Len(df) |->
        IF df[i]["is_home"] # RInt(flag) THEN NaN
        ELSE LET idx == {k \in 1..Len(df) : /\ df[k]["player_id"] = df[i]["player_id"]
                                            /\ df[k]["is_home"] = RInt(flag)}
                 ord == SelectIdx(df, df[i]["player_id"], 1)
                 pts == [k \in 1..Len(ord) |->
                            IF ord[k] \in idx THEN df[ord[k]]["points"] ELSE RInt(0)]
             IN  RDiv(RSum(pts), RInt(Cardinality(idx)))]

\* day ordinals count from a Monday that is the first day of a 30-day month
DayOfWeek(d) == RInt((d[1] - 1) % 7)
MonthOf(d) == RInt(1 + (((d[1] - 1) \div 30) % 12))

_create_situational_features(df) ==
    LET home == IF ~HasCol(df, "is_home") THEN <<>>
                ELSE LET h == VenuePointsMean(df, 1)
                         a == VenuePointsMean(df, 0)
                     IN  ("home_pts_avg" :> h) @@ ("away_pts_avg" :> a) @@
                         ("home_away_diff" :>
                            [i \in 1..Len(df) |->
                                RSub(RFillNa(h[i], RInt(0)), RFillNa(a[i], RInt(0)))])
        rest == IF ~HasCol(df, "rest_days") THEN <<>>
                ELSE ("back_to_back" :>
                        [i \in 1..Len(df) |->
                            IF df[i]["rest_days"] = RInt(0) THEN RInt(1) ELSE RInt(0)]) @@
                     ("well_rested" :>
                        [i \in 1..Len(df) |->
                            IF ~RLt(df[i]["rest_days"], RInt(3)) THEN RInt(1) ELSE RInt(0)])
        cal  == IF ~HasCol(df, "game_date") THEN <<>>
                ELSE ("day_of_week" :> [i \in 1..Len(df) |-> DayOfWeek(df[i]["game_date"])]) @@
                     ("month" :> [i \in 1..Len(df) |-> MonthOf(df[i]["game_date"])])
    IN  Assign(df, home @@ rest @@ cal)

SituationalNames(df) ==
    (IF HasCol(df, "is_home") THEN <<"is_home", "home_away_diff">> ELSE <<>>)
    \o (IF HasCol(df, "rest_days") THEN <<"rest_days", "back_to_back", "well_rested">> ELSE <<>>)
    \o (IF HasCol(df, "game_date") THEN <<"day_of_week", "month">> ELSE <<>>)

_create_role_features(df) ==
    LET avg == GroupTransform(df, "points", LAMBDA x : Shift1(ExpandingMean(x)))
        var == GroupTransform(df, "points", LAMBDA x : Shift1(ExpandingVar(x)))
    IN  Assign(df,
            ("season_pts_avg" :> avg) @@ ("season_pts_std" :> var) @@
            ("scoring_cv" :> [i \in 1..Len(df) |-> Sym2(var[i], RAdd(avg[i], Tenth))]) @@
            ("games_played" :> GroupCumcount(df)))

RoleNames(df) ==
    <<"season_pts_avg", "season_pts_std", "scoring_cv", "games_played">>
    \o (IF HasCol(df, "position") THEN <<"position">> ELSE <<>>)

HistWindows == {3, 5, 7, 10, 15, 20}
EmaSpans == {3, 5, 10}

_create_historical_features(df) ==
    LET avg == [n \in {WinName("pts_avg", w) : w \in HistWindows} |->
                    LET w == CHOOSE w \in HistWindows : n = WinName("pts_avg", w)
                    IN  GroupTransform(df, "points", LAMBDA x : Shift1(RollingMean(x, w, 1)))]
        ema == [n \in {WinName("pts_ema", sp) : sp \in EmaSpans} |->
                    LET sp == CHOOSE sp \in EmaSpans : n = WinName("pts_ema", sp)
                    IN  GroupTransform(df, "points", LAMBDA x : Shift1(EwmMean(x, sp)))]
        ext == ("pts_std_10" :>
                    GroupTransform(df, "points", LAMBDA x : Shift1(RollingVar(x, 10, 2)))) @@
               ("pts_max_10" :>
                    GroupTransform(df, "points", LAMBDA x : Shift1(RollingMax(x, 10)))) @@
               ("pts_min_10" :>
                    GroupTransform(df, "points", LAMBDA x : Shift1(RollingMin(x, 10))))
    IN  Assign(df, avg @@ ema @@ ext)

HistoricalNames ==
    <<"pts_avg_3", "pts_avg_5", "pts_avg_7", "pts_avg_10", "pts_avg_15", "pts_avg_20",
      "pts_ema_3", "pts_ema_5", "pts_ema_10", "pts_std_10", "pts_max_10", "pts_min_10">>

_create_momentum_features(df) ==
    LET last == GroupTransform(df, "points", LAMBDA x : Shift1(x))
        m20  == GroupTransform(df, "points", LAMBDA x : Shift1(RollingMean(x, 20, 5)))
        v20  == GroupTransform(df, "points", LAMBDA x : Shift1(RollingVar(x, 20, 5)))
    IN  Assign(df,
            ("pts_vs_season" :>
                [i \in 1..Len(df) |-> RSub(df[i]["pts_avg_5"], df[i]["season_pts_avg"])]) @@
            ("pts_momentum_3v10" :>
                [i \in 1..Len(df) |-> RSub(df[i]["pts_avg_3"], df[i]["pts_avg_10"])]) @@
            ("games_over_20_last_5" :>
                GroupTransform(df, "points", LAMBDA x : Shift1(RollingCountOver(x, 5, 20)))) @@
            ("games_under_10_last_5" :>
                GroupTransform(df, "points", LAMBDA x : Shift1(RollingCountUnder(x, 5, 10)))) @@
            ("last_game_zscore" :>
                [i \in 1..Len(df) |-> Sym3(last[i], m20[i], v20[i])]))

MomentumNames ==
    <<"pts_vs_season", "pts_momentum_3v10", "games_over_20_last_5",
      "games_under_10_last_5", "last_game_zscore">>

_create_interaction_features(df) ==
    LET mxe == IF HasCol(df, "min_avg_5") /\ HasCol(df, "fg_pct_avg_5")
               THEN "min_x_efficiency" :>
                        [i \in 1..Len(df) |-> RMul(df[i]["min_avg_5"], df[i]["fg_pct_avg_5"])]
               ELSE <<>>
        hxr == IF HasCol(df, "is_home") /\ HasCol(df, "rest_days")
               THEN "home_x_rested" :>
                        [i \in 1..Len(df) |->
                            RMul(df[i]["is_home"],
                                 IF RLt(df[i]["rest_days"], RInt(4))
                                 THEN df[i]["rest_days"] ELSE RInt(4))]
               ELSE <<>>
        mxc == IF HasCol(df, "pts_momentum_3v10") /\ HasCol(df, "scoring_cv")
               THEN "momentum_x_consistency" :>
                        [i \in 1..Len(df) |->
                            Sym3(df[i]["pts_momentum_3v10"],
                                 df[i]["scoring_cv"][1], df[i]["scoring_cv"][2])]
               ELSE <<>>
        fxb == IF HasCol(df, "pts_avg_5") /\ HasCol(df, "season_pts_avg")
               THEN "form_x_baseline" :>
                        [i \in 1..Len(df) |->
                            RDiv(RMul(df[i]["pts_avg_5"], df[i]["season_pts_avg"]), RInt(100))]
               ELSE <<>>
    IN  Assign(df, mxe @@ hxr @@ mxc @@ fxb)

InteractionNames(df) ==
    (IF HasCol(df, "minutes") /\ HasCol(df, "fg_pct") THEN <<"min_x_efficiency">> ELSE <<>>)
    \o (IF HasCol(df, "is_home") /\ HasCol(df, "rest_days") THEN <<"home_x_rested">> ELSE <<>>)
    \o <<"momentum_x_consistency", "form_x_baseline">>

create_all_features(df0) ==
    LET df == SortByPlayerDate(df0)
    IN  _create_interaction_features(
        _create_momentum_features(
        _create_historical_features(
        _create_role_features(
        _create_situational_features(
        _create_efficiency_features(
        _create_shot_volume_features(df)))))))

\* list(dict.fromkeys(xs)): the first occurrence of every element, in order
DedupKeepFirst(xs) ==
    LET keep == {k \in 1..Len(xs) : \A j \in 1..(k - 1) : xs[j] # xs[k]}
    IN  Materialize([p \in 1..Cardinality(keep) |->
            xs[CHOOSE k \in keep : Cardinality({j \in keep : j < k}) = p - 1]])

\* the names create_all_features files in feature_groups for a frame with the
\* columns of df, flattened in group order without duplicates
get_feature_list(df) ==
    LET all == ShotVolumeNames(df) \o EfficiencyNames(df) \o SituationalNames(df)
               \o RoleNames(df) \o HistoricalNames \o MomentumNames \o InteractionNames(df)
    IN  DedupKeepFirst(all)

-----------------------------------------------------------------------------
(* Game logs of the feature pipeline *)

BoxCols == {"points", "rebounds", "assists", "minutes", "fg_pct", "fg3_pct", "ft_pct"}

Box(pts, reb, ast, min, fg, fg3, ft) ==
    [c \in BoxCols |->
        CASE c = "points"   -> RInt(pts)
          [] c = "rebounds" -> RInt(reb)
          [] c = "assists"  -> RInt(ast)
          [] c = "minutes"  -> RInt(min)
          [] c = "fg_pct"   -> Rat(fg, 100)
          [] c = "fg3_pct"  -> Rat(fg3, 100)
          [] c = "ft_pct"   -> Rat(ft, 100)]

Ctx(home, rest) == ("is_home" :> RInt(home)) @@ ("rest_days" :> RInt(rest))

LowBox  == Box(8, 3, 2, 20, 40, 30, 70)
HighBox == Box(24, 9, 6, 34, 50, 40, 80)
PeakBox == Box(31, 12, 10, 38, 60, 50, 90)
ZeroBox == Box(0, 0, 0, 0, 0, 0, 0)

\* the box scores a log is drawn from, and the ones a game is rewritten to
GameBoxes == {LowBox, HighBox}
RewriteBoxes == {PeakBox, ZeroBox}

\* the fixture list: every third day is an away game, rest days cycle 1,2,3,0
HomeOn(date) == IF date % 3 = 0 THEN 0 ELSE 1
RestBefore(date) == date % 4

\* "solo": one player; "duo": two players playing on alternate days
Rosters == {"solo", "duo"}
PlayerOf(roster, i) == IF roster = "solo" THEN 1 ELSE 1 + (i % 2)

GameLog(n, roster, boxes) ==
    [i \in 1..n |->
        ("player_id" :> RInt(PlayerOf(roster, i))) @@ ("game_date" :> RInt(i))
        @@ boxes[i] @@ Ctx(HomeOn(i), RestBefore(i))]

GameLogs ==
    UNION {{GameLog(n, r, b) : r \in Rosters, b \in [1..n -> GameBoxes]} : n \in 1..MaxGames}

\* the log with the box score of game i replaced, its identity and context kept
RewriteGame(df, i, box) == [df EXCEPT ![i] = box @@ df[i]]

-----------------------------------------------------------------------------
(* The feature pipeline: a game log, a rewritten copy, and the two transforms *)

FeInit ==
    /\ stats_df \in GameLogs
    /\ stats_df2 = stats_df
    /\ feat = <<>>
    /\ feat2 = <<>>
    /\ fe_pc = "input"

\* the environment rewrites the box score of one game of the log
Rewrite ==
    /\ fe_pc = "input"
    /\ stats_df2 = stats_df
    /\ \E i \in 1..Len(stats_df), box \in RewriteBoxes :
          stats_df2' = RewriteGame(stats_df, i, box)
    /\ UNCHANGED <<stats_df, feat, feat2, fe_pc>>
    /\ UNCHANGED not_fe

\* SafePerformancePredictor.create_features on both logs
CreateFeatures ==
    /\ fe_pc = "input"
    /\ stats_df2 # stats_df
    /\ feat' = create_features(stats_df)
    /\ feat2' = create_features(stats_df2)
    /\ fe_pc' = "predictor"
    /\ UNCHANGED <<stats_df, stats_df2>>
    /\ UNCHANGED not_fe

\* PointsFeatureEngineer.create_all_features on both logs
CreateAllFeatures ==
    /\ fe_pc = "input"
    /\ stats_df2 # stats_df
    /\ feat' = create_all_features(stats_df)
    /\ feat2' = create_all_features(stats_df2)
    /\ fe_pc' = "engineer"
    /\ UNCHANGED <<stats_df, stats_df2>>
    /\ UNCHANGED not_fe

\* the columns whose cells are kept as tuples of arguments
SymbolicCols == {"scoring_cv", "last_game_zscore", "momentum_x_consistency"}

\* pd.isna of the cell v of column c
Missing(v, c) == IF c \in SymbolicCols THEN IsNaN(v[1]) ELSE IsNaN(v)

\* a dropna that drops nothing
DropNa_keep_all(df, cols) == df

\* df.dropna(subset=cols)
DropNa(df, cols) == SelectSeq(df, LAMBDA row : \A c \in cols \cap DOMAIN row : ~Missing(row[c], c))

\* xs[:k]
FirstK(xs, k) == SubSeq(xs, 1, Min2(k, Len(xs)))

core_features == <<"pts_avg_5", "pts_avg_10", "season_pts_avg">>

\* the rows ensemble.train fits and evaluates on: df_enhanced without the
\* rows that miss a core feature, then without the rows that miss points or
\* one of the first ten available features
EnsembleCleanRows(df_enhanced, features) ==
    LET kept      == DropNa(df_enhanced, SeqToSet(core_features))
        available == SelectSeq(features, LAMBDA f : f \in Columns(df_enhanced))
    IN  DropNa(kept, {"points"} \cup SeqToSet(FirstK(available, 10)))

\* train_advanced_points: from the engineered frames to the rows of
\* ensemble.train
CleanRows ==
    /\ fe_pc = "engineer"
    /\ feat' = EnsembleCleanRows(feat, get_feature_list(stats_df))
    /\ feat2' = EnsembleCleanRows(feat2, get_feature_list(stats_df2))
    /\ fe_pc' = "clean"
    /\ UNCHANGED <<stats_df, stats_df2>>
    /\ UNCHANGED not_fe

FeNext == Rewrite \/ CreateFeatures \/ CreateAllFeatures \/ CleanRows

-----------------------------------------------------------------------------
(* SafePerformancePredictor: constants *)

target_columns == <<"points", "rebounds", "assists">>
Targets == {"points", "rebounds", "assists"}

base_feature_columns == <<"is_home", "rest_days", "opponent_def_rating">>

\* the lists with a points average among the rebounds features
target_specific_features_shared ==
    [t \in Targets |->
        CASE t = "points" ->
                <<"pts_avg_5", "pts_avg_10", "pts_avg_15", "min_avg_5", "min_avg_10",
                  "season_pts_avg", "season_min_avg",
                  "fg_pct_avg_10", "fg3_pct_avg_10", "ft_pct_avg_10">>
          [] t = "rebounds" ->
                <<"reb_avg_5", "reb_avg_10", "reb_avg_15", "pts_avg_5", "min_avg_10",
                  "season_reb_avg", "season_min_avg">>
          [] t = "assists" ->
                <<"ast_avg_5", "ast_avg_10", "ast_avg_15", "min_avg_5", "min_avg_10",
                  "season_ast_avg", "season_min_avg">>]

target_specific_features ==
    [t \in Targets |->
        CASE t = "points" ->
                <<"pts_avg_5", "pts_avg_10", "pts_avg_15", "min_avg_5", "min_avg_10",
                  "season_pts_avg", "season_min_avg",
                  "fg_pct_avg_10", "fg3_pct_avg_10", "ft_pct_avg_10">>
          [] t = "rebounds" ->
                <<"reb_avg_5", "reb_avg_10", "reb_avg_15", "min_avg_5", "min_avg_10",
                  "season_reb_avg", "season_min_avg">>
          [] t = "assists" ->
                <<"ast_avg_5", "ast_avg_10", "ast_avg_15", "min_avg_5", "min_avg_10",
                  "season_ast_avg", "season_min_avg">>]

_get_features_for_target(target) ==
    base_feature_columns \o
    (IF target \in DOMAIN target_specific_features
        THEN target_specific_features[target] ELSE <<>>)

Bounds3(p, r, a) ==
    [t \in Targets |->
        CASE t = "points" -> <<RInt(0), RInt(p)>>
          [] t = "rebounds" -> <<RInt(0), RInt(r)>>
          [] t = "assists" -> <<RInt(0), RInt(a)>>]

POSITION_BOUNDS ==
    [pos \in {"PG", "SG", "SF", "PF", "C", "G", "F", "G-F", "F-G", "F-C", "C-F"} |->
        CASE pos = "PG"  -> Bounds3(50, 10, 20)
          [] pos = "SG"  -> Bounds3(55, 12, 15)
          [] pos = "SF"  -> Bounds3(50, 15, 12)
          [] pos = "PF"  -> Bounds3(45, 20, 10)
          [] pos = "C"   -> Bounds3(45, 25, 12)
          [] pos = "G"   -> Bounds3(55, 12, 20)
          [] pos = "F"   -> Bounds3(50, 18, 12)
          [] pos = "G-F" -> Bounds3(50, 15, 15)
          [] pos = "F-G" -> Bounds3(50, 15, 15)
          [] pos = "F-C" -> Bounds3(45, 22, 10)
          [] pos = "C-F" -> Bounds3(45, 22, 10)]

DEFAULT_BOUNDS == Bounds3(60, 25, 20)

\* POSITION_BOUNDS.get(position, DEFAULT_BOUNDS)
BoundsFor(position) ==
    IF position \in DOMAIN POSITION_BOUNDS THEN POSITION_BOUNDS[position] ELSE DEFAULT_BOUNDS

-----------------------------------------------------------------------------
(* Python built-ins on floats *)

\* max(a, b): b only if b > a (a NaN never compares greater)
PyMax(a, b) == IF RGt(b, a) THEN b ELSE a
\* min(a, b): b only if b < a
PyMin(a, b) == IF RLt(b, a) THEN b ELSE a

\* round(x, places) with scale = 10^places, exact ties going to the even digit
Round(r, scale) ==
    IF IsNaN(r) THEN NaN
    ELSE LET x   == r[1] * scale
             q   == x \div r[2]
             rem == x - q * r[2]
             up  == \/ 2 * rem > r[2]
                    \/ (2 * rem = r[2] /\ q % 2 = 1)
         IN  Rat(IF up THEN q + 1 ELSE q, scale)

EmptyMap == [k \in {} |-> 0]
\* d with d[k] = v
Put(d, k, v) == (k :> v) @@ d
\* [f for f in xs if f in cols]
Present(xs, cols) == SelectSeq(xs, LAMBDA f : f \in cols)

-----------------------------------------------------------------------------
(* Regressors.  A fitted regressor is opaque: it is the statistic it was     *)
(* fitted to, the ordered columns it was fitted on and a deterministic       *)
(* response to a one-row frame, read off ResponseCurve.                      *)

\* raw outputs: negative, zero, mid-range, above a guard's rebound ceiling,
\* above every ceiling
ResponseCurve == <<Rat(-50, 10), RInt(0), Rat(33, 10), RInt(18), RInt(70)>>

Regressor(target, cols, tune) == [fit_for |-> target, cols |-> cols, tune |-> tune]
NoModel == [fit_for |-> "", cols |-> <<>>, tune |-> -1]
IsModel(m) == m.tune >= 0

TuneOf(target) == CASE target = "points" -> 2 [] target = "rebounds" -> 3 [] OTHER -> 0

\* df[cols] of a one-row frame: the ordered column list and the row
Select(row, cols) == [cols |-> cols, row |-> [c \in SeqToSet(cols) |-> row[c]]]

\* model.predict(X)[0] for a one-row frame X
Respond(m, X) ==
    LET key == IF "rest_days" \in DOMAIN X.row /\ ~IsNaN(X.row["rest_days"])
               THEN X.row["rest_days"][1] ELSE 0
    IN  ResponseCurve[1 + ((key + m.tune) % Len(ResponseCurve))]

\* XGBoost checks the frame's column names against the fitted ones and raises
\* on a mismatch
Accepts(m, X) == IsModel(m) /\ X.cols = m.cols

-----------------------------------------------------------------------------
(* Files of models_dir *)

\* <target>_model.joblib: absent, a package dictionary, a bare pickled model
\* (the legacy format) or a file joblib.load fails on.  target is the
\* package's 'target' entry: a name, "" or "None" when there is no such key.
Package(target, model, features) ==
    [kind |-> "dict", target |-> target, model |-> model, features |-> features]
LegacyFile(model) == [kind |-> "legacy", target |-> "None", model |-> model, features |-> <<>>]
NoFile == [kind |-> "none", target |-> "None", model |-> NoModel, features |-> <<>>]
CorruptFile == [kind |-> "corrupt", target |-> "None", model |-> NoModel, features |-> <<>>]

\* a check that takes every 'target' entry for absent
Truthy_never(name) == FALSE

\* bool(x) of a package's 'target' entry
Truthy(name) == name # "" /\ name # "None"

\* metrics.joblib
MetricsFile(data) == [kind |-> "dict", data |-> data]
NoMetricsFile == [kind |-> "none", data |-> EmptyMap]

-----------------------------------------------------------------------------
(* EnsemblePointsPredictor *)

EnsembleWeights == ("xgb" :> Rat(4, 10)) @@ ("lgbm" :> Rat(4, 10)) @@ ("archetype" :> Rat(2, 10))

\* EnsemblePointsPredictor.__init__
NewEnsemble ==
    [exists |-> TRUE, xgb_model |-> NoModel, lgbm_model |-> NoModel,
     star_model |-> NoModel, role_model |-> NoModel,
     features |-> <<>>, weights |-> EnsembleWeights, metrics |-> EmptyMap]
\* points_ensemble = None
NoEnsemble == [NewEnsemble EXCEPT !.exists = FALSE]

\* points_ensemble_model.joblib as _save_models writes it
EnsemblePackage(xgb, lgbm, star, role, features, mets) ==
    [kind |-> "dict", xgb_model |-> xgb, lgbm_model |-> lgbm, star_model |-> star,
     role_model |-> role, features |-> features, weights |-> EnsembleWeights, metrics |-> mets]
NoEnsembleFile ==
    [EnsemblePackage(NoModel, NoModel, NoModel, NoModel, <<>>, EmptyMap) EXCEPT !.kind = "none"]
CorruptEnsembleFile == [NoEnsembleFile EXCEPT !.kind = "corrupt"]

\* EnsemblePointsPredictor.load_models
ensemble_load_models(ens, file) ==
    IF file.kind # "dict" THEN [ok |-> FALSE, ens |-> ens]
    ELSE [ok |-> TRUE,
          ens |-> [ens EXCEPT !.xgb_model = file.xgb_model, !.lgbm_model = file.lgbm_model,
                              !.star_model = file.star_model, !.role_model = file.role_model,
                              !.features = file.features, !.weights = file.weights,
                              !.metrics = file.metrics]]

\* the weights taken to sum to 1 whatever components answered
ensemble_weight_sum_fixed(weights) == RInt(1)

\* the sum of the weights of the components that answered
ensemble_weight_sum(weights) == RSum(weights)

\* the archetype model predict selects for player_avg_ppg, if any
EnsembleArchetype(ens, player_avg_ppg) ==
    IF IsNaN(player_avg_ppg) THEN NoModel
    ELSE IF RGt(player_avg_ppg, RInt(25)) /\ IsModel(ens.star_model) THEN ens.star_model
    ELSE IF RLt(player_avg_ppg, RInt(15)) /\ IsModel(ens.role_model) THEN ens.role_model
    ELSE NoModel

\* the components that answer, each with its weight, in the order of predict
EnsembleUsed(ens, arch) ==
    (IF IsModel(ens.xgb_model) THEN <<<<ens.xgb_model, ens.weights["xgb"]>>>> ELSE <<>>)
    \o (IF IsModel(ens.lgbm_model) THEN <<<<ens.lgbm_model, ens.weights["lgbm"]>>>> ELSE <<>>)
    \o (IF IsModel(arch) THEN <<<<arch, ens.weights["archetype"]>>>> ELSE <<>>)

\* the weighted average of the predictions preds under weights, or the fallback
EnsembleAverage(preds, weights) ==
    IF Len(preds) > 0
    THEN RDiv(RSum([k \in 1..Len(preds) |-> RMul(preds[k], weights[k])]),
              ensemble_weight_sum(weights))
    ELSE RInt(15)

\* predict once the frame is filled and ordered as X and the components chosen
EnsembleAnswer(used, filled, X, preds, weights) ==
    [outcome |-> IF \A k \in 1..Len(used) : Accepts(used[k][1], X) THEN "ok" ELSE "raise",
     value   |-> PyMax(RInt(0), EnsembleAverage(preds, weights)),
     row     |-> filled,
     X       |-> X,
     preds   |-> preds,
     weights |-> weights]

EnsembleRespond(used, filled, X) ==
    EnsembleAnswer(used, filled, X,
                   [k \in 1..Len(used) |-> Respond(used[k][1], X)],
                   [k \in 1..Len(used) |-> used[k][2]])

EnsembleFilled(ens, filled, player_avg_ppg) ==
    EnsembleRespond(EnsembleUsed(ens, EnsembleArchetype(ens, player_avg_ppg)),
                    filled, Select(filled, ens.features))

\* EnsemblePointsPredictor.predict(features, player_avg_ppg) on the one-row
\* frame row.  Returns the outcome ("ok" | "raise"), the value, the frame as
\* the call leaves it for the caller (missing columns added as 0), the frame
\* handed to the components, and the predictions and the weights of the
\* components that answered.
ensemble_predict(ens, row, player_avg_ppg) ==
    EnsembleFilled(ens, [f \in SeqToSet(ens.features) \ DOMAIN row |-> RInt(0)] @@ row,
                   player_avg_ppg)

-----------------------------------------------------------------------------
(* SafePerformancePredictor: the object and load_models *)

\* the predictor object as a record of its attributes
Self ==
    [models |-> models, feature_sets |-> feature_sets, metrics |-> metrics,
     _models_loaded |-> _models_loaded, points_ensemble |-> points_ensemble,
     _ensemble_loaded |-> _ensemble_loaded, log |-> <<>>]

\* SafePerformancePredictor.__init__
NewPredictor ==
    [models |-> EmptyMap, feature_sets |-> EmptyMap, metrics |-> EmptyMap,
     _models_loaded |-> FALSE, points_ensemble |-> NoEnsemble,
     _ensemble_loaded |-> FALSE, log |-> <<>>]

\* d.get(k, default)
Get(d, k, default) == IF k \in DOMAIN d THEN d[k] ELSE default

\* the 'points' entry of self.metrics that shows the ensemble's MAE
EnsembleMetrics(mets) ==
    ("mae" :> Round(Get(mets, "ensemble_mae", Rat(601, 100)), 1000))
    @@ ("r2" :> Round(Get(mets, "ensemble_r2", Rat(30, 100)), 1000))
    @@ ("model" :> "ensemble")

\* _load_points_ensemble once the ensemble object's load_models has returned r
EnsembleAttached(self, r) ==
    IF ~r.ok THEN [self EXCEPT !.points_ensemble = r.ens]
    ELSE IF DOMAIN r.ens.metrics = {}
    THEN [self EXCEPT !.points_ensemble = r.ens, !._ensemble_loaded = TRUE]
    ELSE [self EXCEPT !.points_ensemble = r.ens, !._ensemble_loaded = TRUE,
                      !.metrics = Put(@, "points", EnsembleMetrics(r.ens.metrics))]

_load_points_ensemble(self) ==
    IF disk_ensemble.kind = "none" THEN self
    ELSE EnsembleAttached(self, ensemble_load_models(NewEnsemble, disk_ensemble))

\* one pass of the loop of load_models: the file of target
LoadTarget(self, target, file) ==
    IF file.kind = "none" \/ file.kind = "corrupt"
    THEN [ok |-> FALSE, self |-> self]
    ELSE IF file.kind = "dict"
    THEN IF Truthy(file.target) /\ file.target # target
         THEN [ok |-> FALSE,
               self |-> [self EXCEPT !.log = Append(@, <<"error", "MODEL MISMATCH", target, "">>)]]
         ELSE [ok |-> TRUE,
               self |-> [self EXCEPT !.models = Put(@, target, file.model),
                                     !.feature_sets = Put(@, target, file.features)]]
    ELSE [ok |-> TRUE,
          self |-> [self EXCEPT !.models = Put(@, target, file.model),
                                !.feature_sets = Put(@, target, _get_features_for_target(target))]]

\* the loop of load_models over target_columns, after k targets with result r
RECURSIVE LoadTargets(_, _)
LoadTargets(r, k) ==
    IF ~r.ok \/ k >= Len(target_columns) THEN r
    ELSE LoadTargets(LoadTarget(r.self, target_columns[k + 1],
                                disk_models[target_columns[k + 1]]), k + 1)

\* load_models after its loop has ended with r: the metrics and the ensemble
LoadMetrics(self) ==
    IF disk_metrics.kind = "dict" THEN [self EXCEPT !.metrics = disk_metrics.data] ELSE self

LoadRest(r) ==
    IF ~r.ok THEN r
    ELSE [ok |-> TRUE,
          self |-> [_load_points_ensemble(LoadMetrics(r.self)) EXCEPT !._models_loaded = TRUE]]

\* load_models without its early return: every call reads models_dir again
load_models_reloading(self) ==
    LoadRest(LoadTargets([ok |-> TRUE, self |-> self], 0))

load_models(self) ==
    IF self._models_loaded THEN [ok |-> TRUE, self |-> self]
    ELSE LoadRest(LoadTargets([ok |-> TRUE, self |-> self], 0))

-----------------------------------------------------------------------------
(* The game logs predict is called with *)

\* the columns of the game-stats table the service reads
RawColumns ==
    {"player_id", "game_date", "points", "rebounds", "assists", "minutes",
     "fg_pct", "fg3_pct", "ft_pct", "is_home", "rest_days"}

\* a player's history: a game log restricted to the columns cols
History(n, boxes, cols) ==
    LET df == GameLog(n, "solo", boxes) IN [i \in 1..n |-> [c \in cols |-> df[i][c]]]

PlayerHistories ==
    {<<>>,
     History(1, <<HighBox>>, RawColumns),
     History(3, <<LowBox, HighBox, PeakBox>>, RawColumns),
     History(3, <<PeakBox, PeakBox, PeakBox>>, RawColumns \ {"fg_pct", "fg3_pct", "ft_pct"})}

\* create_features over these histories, tabulated once
FeatureFrames == Materialize([h \in PlayerHistories |-> create_features(h)])

-----------------------------------------------------------------------------
(* SafePerformancePredictor.predict *)

_estimate_prediction_std(self, target) ==
    IF target \in DOMAIN self.metrics
    THEN RMul(Get(self.metrics[target], "mae", RInt(3)), Rat(125, 100))
    ELSE RInt(3)

\* the clip without its floor: min(raw_pred, max_bound)
ClipToBounds_ceiling_only(raw_pred, min_bound, max_bound) == PyMin(raw_pred, max_bound)

\* max(min_bound, min(raw_pred, max_bound))
ClipToBounds(raw_pred, min_bound, max_bound) == PyMax(min_bound, PyMin(raw_pred, max_bound))

\* the entry with an upper end that is not cut at max_bound
Interval_uncapped(pred, std_estimate, max_bound) ==
    LET half == RMul(Rat(196, 100), std_estimate)
    IN  [predicted |-> Round(pred, 10),
         lower     |-> Round(PyMax(RInt(0), RSub(pred, half)), 10),
         upper     |-> Round(RAdd(pred, half), 10)]

\* the {'predicted', 'lower', 'upper'} entry of one target
Interval(pred, std_estimate, max_bound) ==
    LET half == RMul(Rat(196, 100), std_estimate)
    IN  [predicted |-> Round(pred, 10),
         lower     |-> Round(PyMax(RInt(0), RSub(pred, half)), 10),
         upper     |-> Round(PyMin(max_bound, RAdd(pred, half)), 10)]

\* the single-regressor path once the raw prediction is clipped to pred
SingleAnswer(self, acc, target, X, raw_pred, pred, max_bound) ==
    [acc EXCEPT
        !.inputs = Put(@, target, X),
        !.served = Put(@, target, "single"),
        !.raws = Put(@, target, raw_pred),
        !.log = IF RGt(RSub(pred, raw_pred), RInt(1)) \/ RGt(RSub(raw_pred, pred), RInt(1))
                THEN Append(@, <<"info", "Clipped", target, "">>) ELSE @,
        !.predictions = Put(@, target,
            Interval(pred, _estimate_prediction_std(self, target), max_bound))]

SingleClip(self, acc, target, X, raw_pred, tb) ==
    SingleAnswer(self, acc, target, X, raw_pred, ClipToBounds(raw_pred, tb[1], tb[2]), tb[2])

\* the single-regressor path on the frame X = latest[features_present]
SingleFrame(self, bounds, acc, target, X) ==
    IF Len(X.cols) = 0 THEN acc
    ELSE IF ~Accepts(self.models[target], X)
    THEN [acc EXCEPT !.raised = TRUE, !.inputs = Put(@, target, X)]
    ELSE SingleClip(self, acc, target, X, Respond(self.models[target], X),
                    Get(bounds, target, <<RInt(0), RInt(100)>>))

\* the single-regressor path of one target
SinglePath(self, bounds, acc, target) ==
    SingleFrame(self, bounds, acc, target,
                Select(acc.latest,
                       Present(Get(self.feature_sets, target, _get_features_for_target(target)),
                               DOMAIN acc.latest)))

\* the ensemble path once the ensemble has answered raw_pred within pb
EnsembleClip(self, acc, e, pb) ==
    [acc EXCEPT !.latest = e.row,
                !.inputs = Put(@, "points", e.X),
                !.served = Put(@, "points", "ensemble"),
                !.raws = Put(@, "points", e.value),
                !.predictions = Put(@, "points",
                     Interval(ClipToBounds(e.value, pb[1], pb[2]),
                              _estimate_prediction_std(self, "points"), pb[2]))]

\* an ensemble path that lets the ensemble's exception leave predict
EnsemblePath_raising(self, bounds, acc, target, e) ==
    IF e.outcome = "ok"
    THEN EnsembleClip(self, acc, e, Get(bounds, "points", <<RInt(0), RInt(60)>>))
    ELSE [acc EXCEPT !.raised = TRUE]

\* the ensemble path for points; e is what the ensemble's predict did.  On
\* an exception the single-regressor path follows, on the frame the ensemble
\* has filled.
EnsemblePath(self, bounds, acc, target, e) ==
    IF e.outcome = "ok"
    THEN EnsembleClip(self, acc, e, Get(bounds, "points", <<RInt(0), RInt(60)>>))
    ELSE SinglePath(self, bounds,
                    [acc EXCEPT !.latest = e.row,
                                !.log = Append(@, <<"warning", "Ensemble prediction failed", target, "">>)],
                    target)

\* the body of the loop of predict for one target.  acc carries the frame
\* latest, the predictions and model inputs so far, the log and whether an
\* exception has left the loop.
PredictTarget(self, position, acc, target) ==
    IF target \notin DOMAIN self.models THEN acc
    ELSE IF target = "points" /\ self._ensemble_loaded /\ self.points_ensemble.exists
    THEN EnsemblePath(self, BoundsFor(position), acc, target,
                      ensemble_predict(self.points_ensemble, acc.latest,
                                       IF "season_pts_avg" \in DOMAIN acc.latest
                                       THEN acc.latest["season_pts_avg"] ELSE NaN))
    ELSE SinglePath(self, BoundsFor(position), acc, target)

RECURSIVE PredictTargets(_, _, _, _)
PredictTargets(self, position, acc, k) ==
    IF k > Len(target_columns) \/ acc.raised THEN acc
    ELSE PredictTargets(self, position,
                        PredictTarget(self, position, acc, target_columns[k]), k + 1)

\* what predict returns without predictions
NoPredictions(self, outcome) ==
    [self |-> self, outcome |-> outcome, predictions |-> EmptyMap,
     inputs |-> EmptyMap, served |-> EmptyMap, raws |-> EmptyMap]

\* predict after its loop has ended with acc
PredictEnd(self, acc) ==
    [self |-> [self EXCEPT !.log = acc.log],
     outcome |-> IF acc.raised THEN "raised" ELSE "returned",
     predictions |-> IF acc.raised THEN EmptyMap ELSE acc.predictions,
     inputs |-> acc.inputs, served |-> acc.served, raws |-> acc.raws]

\* latest without the override: the row of the last game played
Latest_last_game(df, ctx) == df[Len(df)]

\* latest: the last row of df with the prediction context written over it
Latest(df, ctx) ==
    Put(Put(Put(df[Len(df)], "is_home", ctx.is_home), "rest_days", ctx.rest_days),
        "opponent_def_rating", ctx.opponent_def_rating)

\* what predict holds before its loop: latest and no predictions
PredictStart(self, df, ctx) ==
    [latest |-> Latest(df, ctx), predictions |-> EmptyMap, inputs |-> EmptyMap,
     served |-> EmptyMap, raws |-> EmptyMap, log |-> self.log, raised |-> FALSE]

\* predict on the feature frame df
PredictFrame(self, df, position, ctx) ==
    IF Len(df) = 0 THEN NoPredictions(self, "no_history")
    ELSE PredictEnd(self, PredictTargets(self, position, PredictStart(self, df, ctx), 1))

\* predict after load_models has returned ld
PredictLoaded(ld, player_stats, position, ctx) ==
    IF ~ld.ok
    THEN NoPredictions([ld.self EXCEPT !.log = Append(@, <<"error", "Models not loaded", "", "">>)],
                       "not_loaded")
    ELSE PredictFrame(ld.self,
                      IF player_stats \in DOMAIN FeatureFrames THEN FeatureFrames[player_stats]
                      ELSE create_features(player_stats),
                      position, ctx)

\* predict(player_stats, position, is_home=..., rest_days=..., opponent_def_rating=...)
\* Returns the predictor as the call leaves it, how the call ended
\* ("not_loaded" | "no_history" | "returned" | "raised") and what it returned.
predict(self, player_stats, position, ctx) ==
    PredictLoaded(load_models(self), player_stats, position, ctx)

-----------------------------------------------------------------------------
(* SafePerformancePredictor.train *)

(* A training table is too long to enumerate row by row (train needs 100    *)
(* clean rows), so stats_df is described by what train reads of it:         *)
(*   columns     the columns of stats_df                                    *)
(*   clean_rows  per target, the rows dropna leaves for the target and its  *)
(*               features                                                   *)
(*   defect      per target, what _validate_target_column reads of the      *)
(*               column: the number n of its non-missing values and the     *)
(*               least and the greatest of them                             *)
(*   twin        a column of stats_df holding the same values as the column *)
(*               of twin_of ("" when there is none)                         *)
(*   corr        the correlation of every other feature with a target       *)
(*   test_mae    the held-out MAE the fitted regressor turns out to have    *)
TrainTable(columns, clean_rows, defect, twin, twin_of, corr, test_mae) ==
    [columns |-> columns, clean_rows |-> clean_rows, defect |-> defect, twin |-> twin,
     twin_of |-> twin_of, corr |-> corr, test_mae |-> test_mae]

\* the columns of create_features(stats_df)
TrainColumns(table) == Columns(create_features(<<[c \in table.columns |-> RInt(1)]>>))

\* df[feature].corr(df[target])
Correlation(table, feature, target) ==
    IF table.twin = feature /\ table.twin_of = target THEN RInt(1) ELSE table.corr

\* s in name
Contains(name, s) ==
    \E i \in 1..(Len(name) - Len(s) + 1) : SubSeq(name, i, i + Len(s) - 1) = s

\* a validator that accepts every target column
_validate_target_column_lenient(table, target) == "ok"

\* one ceiling for every target
max_allowed_flat(target) == 100

\* bounds.get(target, 100)
max_allowed(target) ==
    CASE target = "points" -> 100
      [] target = "rebounds" -> 40
      [] target = "assists" -> 30
      [] OTHER -> 100

\* "ok", or "raise" for the ValueError
_validate_target_column(table, target) ==
    IF target \notin table.columns THEN "raise"
    ELSE IF table.defect[target].n = 0 THEN "raise"
    ELSE IF table.defect[target].min < 0 THEN "raise"
    ELSE "ok"

\* the warning _validate_target_column logs when it does not raise
ExtremeRecords(table, target) ==
    IF table.defect[target].max > max_allowed(target)
    THEN <<<<"warning", "extreme values", target, "">>>>
    ELSE <<>>

\* what _check_feature_leakage does about one feature: the records it logs
LeakageRecords(table, feature, target) ==
    LET corr == Correlation(table, feature, target)
    IN  (IF Contains(feature, target)
            /\ ~\E q \in {"avg", "season", "rolling"} : Contains(feature, q)
         THEN <<<<"warning", "SUSPICIOUS", target, feature>>>> ELSE <<>>)
        \o (IF RGt(IF corr[1] < 0 THEN RNeg(corr) ELSE corr, Rat(99, 100))
            THEN <<<<"error", "CRITICAL LEAKAGE", target, feature>>>>
            ELSE IF RGt(IF corr[1] < 0 THEN RNeg(corr) ELSE corr, Rat(95, 100))
            THEN <<<<"warning", "HIGH CORRELATION", target, feature>>>>
            ELSE <<>>)

\* the records _check_feature_leakage logs for features[k..]; it never raises
RECURSIVE _check_feature_leakage(_, _, _, _, _)
_check_feature_leakage(features, target, table, df_columns, k) ==
    IF target \notin df_columns \/ k > Len(features) THEN <<>>
    ELSE (IF features[k] \in df_columns
             THEN LeakageRecords(table, features[k], target) ELSE <<>>)
         \o _check_feature_leakage(features, target, table, df_columns, k + 1)

\* steps 6 to 9 of the loop of train: fit, evaluate, store and save
TrainFit(run, table, target, features_present, model) ==
    [run EXCEPT
        !.self.models = Put(@, target, model),
        !.self.feature_sets = Put(@, target, features_present),
        !.files = Put(@, target, Package(target, model, features_present)),
        !.fitted = @ \cup {target},
        !.all_metrics = Put(@, target,
            ("mae" :> Round(table.test_mae, 1000))
            @@ ("training_samples" :> RInt((table.clean_rows[target] * 8) \div 10)))]

\* steps 3 to 9, with the records leak of the leakage check
TrainChecked(run, table, target, features_present, leak) ==
    IF table.clean_rows[target] < 100
    THEN [run EXCEPT !.self.log = Append(@ \o leak, <<"warning", "Insufficient data", target, "">>)]
    ELSE TrainFit([run EXCEPT !.self.log = @ \o leak], table, target, features_present,
                  Regressor(target, features_present, TuneOf(target)))

\* steps 2 to 9, with the features of the target that df has
TrainFeatures(run, table, target, features_present) ==
    IF Len(features_present) < 3
    THEN [run EXCEPT !.self.log = Append(@, <<"warning", "Not enough features", target, "">>)]
    ELSE TrainChecked(run, table, target, features_present,
            _check_feature_leakage(features_present, target, table, run.df_columns, 1))

\* the body of the loop of train for one target.  run carries the predictor,
\* the model files, all_metrics, the targets a model was fitted for and the
\* columns of df = create_features(stats_df).
TrainTarget(run, table, target) ==
    IF _validate_target_column(table, target) = "raise"
    THEN [run EXCEPT !.self.log = Append(@, <<"error", "Error training", target, "">>)]
    ELSE TrainFeatures([run EXCEPT !.self.log = @ \o ExtremeRecords(table, target)],
                       table, target,
                       Present(_get_features_for_target(target), run.df_columns))

RECURSIVE TrainTargets(_, _, _)
TrainTargets(run, table, k) ==
    IF k > Len(target_columns) THEN run
    ELSE TrainTargets(TrainTarget(run, table, target_columns[k]), table, k + 1)

\* train after its loop has ended with run
TrainEnd(run) ==
    [self |-> [run.self EXCEPT !.metrics = run.all_metrics, !._models_loaded = TRUE],
     files |-> run.files,
     metrics_file |-> MetricsFile(run.all_metrics),
     fitted |-> run.fitted]

\* train before its loop: df = create_features(stats_df), all_metrics = {}
TrainBegin(self, table) ==
    [self |-> self, files |-> disk_models, fitted |-> {}, all_metrics |-> EmptyMap,
     df_columns |-> TrainColumns(table)]

\* train(stats_df): the predictor and the files as the call leaves them
train(self, table) ==
    TrainEnd(TrainTargets(TrainBegin(self, table), table, 1))

-----------------------------------------------------------------------------
(* The deployments, training tables and requests the predictor is run on *)

\* the artifact train writes for target from a table with every raw column
TrainedModel(target) == Regressor(target, _get_features_for_target(target), TuneOf(target))
GoodFile(target) == Package(target, TrainedModel(target), _get_features_for_target(target))

\* another target, whose artifact gets copied over this one's
Neighbour(target) ==
    CASE target = "points" -> "rebounds" [] target = "rebounds" -> "assists" [] OTHER -> "points"

\* what may lie at <target>_model.joblib
FilesFor(target) ==
    {GoodFile(target),
     GoodFile(Neighbour(target)),
     [GoodFile(Neighbour(target)) EXCEPT !.target = ""],
     [GoodFile(target) EXCEPT !.target = "None"],
     LegacyFile(TrainedModel(Neighbour(target))),
     NoFile,
     CorruptFile}

\* the model files: every target's own artifact, or one of them replaced
ModelDirs ==
    {[t \in Targets |-> GoodFile(t)]}
    \cup UNION {{[[t \in Targets |-> GoodFile(t)] EXCEPT ![u] = f] : f \in FilesFor(u)} :
                   u \in Targets}

MetricsFiles ==
    {NoMetricsFile,
     MetricsFile(("points" :> ("mae" :> Rat(48, 10))) @@ ("rebounds" :> ("mae" :> RInt(2)))
                 @@ ("assists" :> ("mae" :> RInt(0)))),
     MetricsFile(("points" :> ("mae" :> RInt(60))) @@ ("rebounds" :> ("r2" :> Rat(3, 10))))}

\* the feature list of the ensemble artifact: columns of both transforms
EnsembleFeatures ==
    <<"pts_avg_5", "season_pts_avg", "pts_ema_3", "is_home", "rest_days", "back_to_back">>
EnsembleModel(tune) == Regressor("points", EnsembleFeatures, tune)

EnsembleFiles ==
    {NoEnsembleFile,
     CorruptEnsembleFile,
     EnsemblePackage(EnsembleModel(0), EnsembleModel(1), EnsembleModel(2), EnsembleModel(3),
                     EnsembleFeatures,
                     ("ensemble_mae" :> Rat(55312, 10000)) @@ ("ensemble_r2" :> Rat(41, 100))),
     \* the general regressor alone: no LightGBM, no archetype models
     EnsemblePackage(EnsembleModel(0), NoModel, NoModel, NoModel, EnsembleFeatures,
                     ("ensemble_mae" :> RInt(6)) @@ ("ensemble_r2" :> Rat(3, 10))),
     \* components fitted on other columns than the list the package carries
     EnsemblePackage(Regressor("points", <<"pts_avg_5">>, 0), NoModel, NoModel, NoModel,
                     EnsembleFeatures,
                     ("ensemble_mae" :> Rat(55312, 10000)) @@ ("ensemble_r2" :> Rat(41, 100)))}

\* models_dir as the service finds it: the artifacts of a training run with
\* any metrics and ensemble files, or one model file replaced
Deployments ==
    {[models |-> [t \in Targets |-> GoodFile(t)], metrics |-> m, ensemble |-> e] :
        m \in MetricsFiles, e \in EnsembleFiles}
    \cup {[models |-> d, metrics |-> NoMetricsFile, ensemble |-> NoEnsembleFile] :
             d \in ModelDirs}

\* a target column with n non-missing values between lo and hi
Values(n, lo, hi) == [n |-> n, min |-> lo, max |-> hi]
NoDefect == [t \in Targets |-> Values(150, 0, 30)]
\* the same number of clean rows for every target
AllRows(n) == [t \in Targets |-> n]

TrainTables ==
    {TrainTable(RawColumns, AllRows(150), NoDefect, "", "", Rat(1, 2), Rat(24567, 10000)),
     \* the opponent_def_rating column holds the rebounds of the same game
     TrainTable(RawColumns \cup {"opponent_def_rating"}, AllRows(150), NoDefect,
                "opponent_def_rating", "rebounds", Rat(1, 2), Rat(24567, 10000)),
     \* a strongly but not perfectly correlated feature
     TrainTable(RawColumns, AllRows(150), NoDefect, "", "", Rat(97, 100), RInt(1)),
     \* too few clean rows
     TrainTable(RawColumns, AllRows(40), NoDefect, "", "", Rat(1, 2), RInt(1)),
     \* too few rows with a rebounds value, just enough with an assists value
     TrainTable(RawColumns, [AllRows(150) EXCEPT !["rebounds"] = 99, !["assists"] = 100],
                NoDefect, "", "", Rat(1, 2), RInt(1)),
     \* negative assists, no rebounds column
     TrainTable(RawColumns \ {"rebounds"}, AllRows(150), [NoDefect EXCEPT !["assists"] = Values(150, -1, 30)],
                "", "", Rat(1, 2), RInt(3)),
     \* box-score counts only: no minutes, no shooting percentages, no context
     TrainTable({"player_id", "game_date", "points", "rebounds", "assists"}, AllRows(150),
                [NoDefect EXCEPT !["points"] = Values(0, 0, 0)], "", "", Rat(1, 2), RInt(3)),
     \* a 101-point game and a 31-assist game; the most rebounds are 40
     TrainTable(RawColumns, AllRows(150),
                ("points" :> Values(150, 0, 101)) @@ ("rebounds" :> Values(150, 0, 40))
                @@ ("assists" :> Values(150, 0, 31)), "", "", Rat(1, 2), RInt(3)),
     \* points between -2 and 120, rebounds up to 41
     TrainTable(RawColumns, AllRows(150),
                [NoDefect EXCEPT !["points"] = Values(150, -2, 120),
                                 !["rebounds"] = Values(150, 0, 41)],
                "", "", Rat(1, 2), RInt(3))}

\* no table: train has not been called
NoTable == TrainTable({}, AllRows(0), NoDefect, "", "", RInt(0), RInt(0))

Positions == {"PG", "SG", "G", "C", "None"}

Context(is_home, rest_days, opponent_def_rating) ==
    [is_home |-> RInt(is_home), rest_days |-> RInt(rest_days),
     opponent_def_rating |-> RInt(opponent_def_rating)]
\* no request: predict has not been called
NoRequest == [player_stats |-> <<>>, position |-> "None", ctx |-> Context(1, 1, 110)]

Contexts ==
    {Context(1, 0, 110), Context(0, 1, 110), Context(1, 2, 105), Context(0, 3, 118),
     Context(1, 4, 110)}

-----------------------------------------------------------------------------
(* The predictor service: one SafePerformancePredictor over models_dir *)

Idle ==
    /\ pr_pc = "idle"
    /\ predictions = EmptyMap
    /\ model_input = EmptyMap
    /\ served_by = EmptyMap
    /\ raw_preds = EmptyMap
    /\ request = NoRequest
    /\ train_input = NoTable
    /\ fitted = {}
    /\ log = <<>>

SetSelf(self) ==
    /\ models' = self.models
    /\ feature_sets' = self.feature_sets
    /\ metrics' = self.metrics
    /\ _models_loaded' = self._models_loaded
    /\ points_ensemble' = self.points_ensemble
    /\ _ensemble_loaded' = self._ensemble_loaded
    /\ log' = self.log

PrInit ==
    /\ \E d \in Deployments :
          /\ disk_models = d.models
          /\ disk_metrics = d.metrics
          /\ disk_ensemble = d.ensemble
    /\ models = NewPredictor.models
    /\ feature_sets = NewPredictor.feature_sets
    /\ metrics = NewPredictor.metrics
    /\ _models_loaded = NewPredictor._models_loaded
    /\ points_ensemble = NewPredictor.points_ensemble
    /\ _ensemble_loaded = NewPredictor._ensemble_loaded
    /\ Idle

\* the predictor takes the attributes load_models leaves and the call returns
Loaded(r) ==
    /\ SetSelf(r.self)
    /\ pr_pc' = IF r.ok THEN "loaded" ELSE "load_failed"

\* predictor.load_models()
LoadModels ==
    /\ pr_pc = "idle"
    /\ Loaded(load_models(Self))
    /\ UNCHANGED <<disk_vars, predictions, model_input, served_by, raw_preds, request, train_input, fitted>>
    /\ UNCHANGED not_pr

\* the predictor and models_dir as train leaves them
Trained(r, table) ==
    /\ SetSelf(r.self)
    /\ disk_models' = r.files
    /\ disk_metrics' = r.metrics_file
    /\ fitted' = r.fitted
    /\ train_input' = table

\* predictor.train(stats_df)
Train ==
    /\ pr_pc = "idle"
    /\ \E table \in TrainTables : Trained(train(Self, table), table)
    /\ pr_pc' = "trained"
    /\ UNCHANGED <<disk_ensemble, predictions, model_input, served_by, raw_preds, request>>
    /\ UNCHANGED not_pr

\* the predictor as predict leaves it and what the call returns
Predicted(r, player_stats, position, ctx) ==
    /\ SetSelf(r.self)
    /\ pr_pc' = r.outcome
    /\ predictions' = r.predictions
    /\ model_input' = r.inputs
    /\ served_by' = r.served
    /\ raw_preds' = r.raws
    /\ request' = [player_stats |-> player_stats, position |-> position, ctx |-> ctx]

\* predictor.predict(player_stats, position, is_home, rest_days, opponent_def_rating)
Predict ==
    /\ pr_pc = "idle"
    /\ \E player_stats \in PlayerHistories, position \in Positions, ctx \in Contexts :
          Predicted(predict(Self, player_stats, position, ctx), player_stats, position, ctx)
    /\ UNCHANGED <<disk_vars, train_input, fitted>>
    /\ UNCHANGED not_pr

\* the caller takes the result; the predictor waits for the next call
Return ==
    /\ pr_pc # "idle"
    /\ pr_pc' = "idle"
    /\ predictions' = EmptyMap
    /\ model_input' = EmptyMap
    /\ served_by' = EmptyMap
    /\ raw_preds' = EmptyMap
    /\ request' = NoRequest
    /\ train_input' = NoTable
    /\ fitted' = {}
    /\ log' = <<>>
    /\ UNCHANGED <<disk_vars, models, feature_sets, metrics, _models_loaded,
                   points_ensemble, _ensemble_loaded>>
    /\ UNCHANGED not_pr

-----------------------------------------------------------------------------
(* The points ensemble on its own: an EnsemblePointsPredictor over models_dir *)

\* a package with any of the four components, each fitted on its feature list
ComponentChoices(tune) == {NoModel, EnsembleModel(tune)}
EnsemblePackages ==
    {EnsemblePackage(x, l, st, ro, EnsembleFeatures, EmptyMap) :
        x \in ComponentChoices(0), l \in ComponentChoices(1),
        st \in ComponentChoices(2), ro \in ComponentChoices(3)}

\* one-row frames: the engineered columns, or only some of them
EnsembleRows ==
    {("rest_days" :> RInt(k)) @@ ("pts_avg_5" :> RInt(20)) : k \in 0..4}
    \cup {[c \in SeqToSet(EnsembleFeatures) |-> RInt(1)]}

\* player_avg_ppg: none, a role player, a starter, a star
SeasonBaselines == {NaN, RInt(10), RInt(20), RInt(31)}

NoResult == [outcome |-> "none", value |-> NaN, row |-> EmptyMap,
             X |-> Select(EmptyMap, <<>>), preds |-> <<>>, weights |-> <<>>]

EnsInit ==
    /\ ens_disk \in EnsemblePackages \cup {NoEnsembleFile, CorruptEnsembleFile}
    /\ ens_self = NewEnsemble
    /\ ens_pc = "idle"
    /\ ens_ppg = NaN
    /\ ens_result = NoResult

EnsLoaded(r) ==
    /\ ens_self' = r.ens
    /\ ens_pc' = IF r.ok THEN "loaded" ELSE "load_failed"

\* ensemble.load_models()
EnsLoad ==
    /\ ens_pc = "idle"
    /\ EnsLoaded(ensemble_load_models(ens_self, ens_disk))
    /\ UNCHANGED <<ens_disk, ens_ppg, ens_result>>
    /\ UNCHANGED not_ens

\* ensemble.predict(features, player_avg_ppg)
EnsPredict ==
    /\ ens_pc = "idle"
    /\ \E row \in EnsembleRows, ppg \in SeasonBaselines :
          /\ ens_result' = ensemble_predict(ens_self, row, ppg)
          /\ ens_ppg' = ppg
    /\ ens_pc' = "predicted"
    /\ UNCHANGED <<ens_disk, ens_self>>
    /\ UNCHANGED not_ens

\* the caller takes the result
EnsReturn ==
    /\ ens_pc \in {"loaded", "load_failed", "predicted"}
    /\ ens_pc' = "idle"
    /\ ens_ppg' = NaN
    /\ ens_result' = NoResult
    /\ UNCHANGED <<ens_disk, ens_self>>
    /\ UNCHANGED not_ens

EnsNext == EnsLoad \/ EnsPredict \/ EnsReturn

-----------------------------------------------------------------------------
(* Publication of artifacts: a training job that writes models_dir file by  *)
(* file while predictors start and load whatever models_dir holds.  Every   *)
(* package carries the time it was trained at; trained_at and last_trained  *)
(* keep that stamp as the number of the run that wrote the file.            *)

Files == Targets \cup {"ensemble"}

\* the tables of the training job
PublishTables ==
    {TrainTable(RawColumns, AllRows(150), NoDefect, "", "", Rat(1, 2), Rat(24567, 10000)),
     TrainTable(RawColumns, [AllRows(150) EXCEPT !["rebounds"] = 99],
                NoDefect, "", "", Rat(1, 2), RInt(1)),
     TrainTable(RawColumns, AllRows(150), [NoDefect EXCEPT !["points"] = Values(0, 0, 0)],
                "", "", Rat(1, 2), RInt(3))}

\* no train call is in progress
NoRun == TrainBegin(NewPredictor, NoTable)

\* nothing has been loaded
NotSeen == [ok |-> FALSE, during |-> 0, files |-> [f \in Files |-> 0], metrics |-> 0]

\* models_dir after an earlier run (run 0) and no job in progress
PubInit ==
    /\ disk_models = [t \in Targets |-> GoodFile(t)]
    /\ disk_metrics \in MetricsFiles \ {NoMetricsFile}
    /\ disk_ensemble \in EnsembleFiles \ {CorruptEnsembleFile}
    /\ models = NewPredictor.models
    /\ feature_sets = NewPredictor.feature_sets
    /\ metrics = NewPredictor.metrics
    /\ _models_loaded = NewPredictor._models_loaded
    /\ points_ensemble = NewPredictor.points_ensemble
    /\ _ensemble_loaded = NewPredictor._ensemble_loaded
    /\ Idle
    /\ tr_pc = "idle"
    /\ tr_k = 0
    /\ tr_run = NoRun
    /\ tr_table = NoTable
    /\ run_no = 0
    /\ trained_at = [f \in Files |-> 0]
    /\ last_trained = 0
    /\ seen = NotSeen

\* a trainer process calls SafePerformancePredictor().train(stats_df)
TrainStart ==
    /\ tr_pc = "idle"
    /\ run_no < MaxRuns
    /\ \E table \in PublishTables :
          /\ tr_table' = table
          /\ tr_run' = TrainBegin(NewPredictor, table)
    /\ tr_pc' = "loop"
    /\ tr_k' = 0
    /\ run_no' = run_no + 1
    /\ UNCHANGED <<trained_at, last_trained, seen>>
    /\ UNCHANGED <<pr_vars, not_pub>>

\* the loop of train has gone through one more target and holds run
TrainStepped(run) ==
    /\ tr_run' = run
    /\ disk_models' = run.files
    /\ trained_at' = [f \in Files |->
                        IF f \in run.fitted \ tr_run.fitted THEN run_no ELSE trained_at[f]]

\* one pass of the loop of train: validate, fit, joblib.dump the package
TrainStep ==
    /\ tr_pc = "loop"
    /\ tr_k < Len(target_columns)
    /\ TrainStepped(TrainTarget(tr_run, tr_table, target_columns[tr_k + 1]))
    /\ tr_k' = tr_k + 1
    /\ UNCHANGED <<tr_pc, tr_table, run_no, last_trained, seen>>
    /\ UNCHANGED <<disk_metrics, disk_ensemble, obj_vars, out_vars, not_pub>>

\* train after its loop: joblib.dump(all_metrics, ...) and return
TrainFinish ==
    /\ tr_pc = "loop"
    /\ tr_k = Len(target_columns)
    /\ disk_metrics' = TrainEnd(tr_run).metrics_file
    /\ last_trained' = run_no
    /\ tr_pc' = "idle"
    /\ tr_k' = 0
    /\ tr_run' = NoRun
    /\ tr_table' = NoTable
    /\ UNCHANGED <<run_no, trained_at, seen>>
    /\ UNCHANGED <<disk_models, disk_ensemble, obj_vars, out_vars, not_pub>>

\* a trainer process calls EnsemblePointsPredictor.train: the components are
\* fitted and evaluated in memory
EnsembleTrainFit ==
    /\ tr_pc = "idle"
    /\ run_no < MaxRuns
    /\ tr_pc' = "ensemble"
    /\ run_no' = run_no + 1
    /\ UNCHANGED <<tr_k, tr_run, tr_table, trained_at, last_trained, seen>>
    /\ UNCHANGED <<pr_vars, not_pub>>

\* EnsemblePointsPredictor.train ends with _save_models: one file holds the
\* components, the feature list and the metrics
EnsembleTrainSave ==
    /\ tr_pc = "ensemble"
    /\ disk_ensemble' =
          EnsemblePackage(EnsembleModel(0), EnsembleModel(1), EnsembleModel(2), NoModel,
                          EnsembleFeatures,
                          ("ensemble_mae" :> Rat(5, 1)) @@ ("ensemble_r2" :> Rat(1, 2)))
    /\ trained_at' = [trained_at EXCEPT !["ensemble"] = run_no]
    /\ tr_pc' = "idle"
    /\ UNCHANGED <<tr_k, tr_run, tr_table, run_no, last_trained, seen>>
    /\ UNCHANGED <<disk_models, disk_metrics, obj_vars, out_vars, not_pub>>

\* the predictor takes what load_models leaves; seen is what it read
Observed(r) ==
    /\ SetSelf(r.self)
    /\ seen' = [ok |-> r.ok,
                during |-> IF tr_pc = "idle" THEN 0 ELSE run_no,
                files |-> trained_at,
                metrics |-> last_trained]

\* a predictor process starts and calls load_models
ObserverLoad ==
    /\ Observed(load_models(NewPredictor))
    /\ UNCHANGED <<tr_pc, tr_k, tr_run, tr_table, run_no, trained_at, last_trained>>
    /\ UNCHANGED <<disk_vars, pr_pc, predictions, model_input, served_by, raw_preds, request,
                   train_input, fitted>>
    /\ UNCHANGED not_pub

PubNext == TrainStart \/ TrainStep \/ TrainFinish \/ EnsembleTrainFit \/ EnsembleTrainSave
           \/ ObserverLoad

-----------------------------------------------------------------------------
(* Serving: one predictor shared by request handlers whose predict calls    *)
(* interleave, while a training job of another process may rewrite          *)
(* models_dir.  A handler's call record holds the locals of predict.        *)

Handlers == {"h1", "h2"}

\* the requests of the handlers
ServeHistories ==
    {History(1, <<HighBox>>, RawColumns),
     History(3, <<PeakBox, PeakBox, PeakBox>>, RawColumns \ {"fg_pct", "fg3_pct", "ft_pct"})}
ServePositions == {"PG", "None"}
ServeContexts == {Context(1, 0, 110), Context(0, 3, 118)}

NoAcc == PredictStart(NewPredictor, <<EmptyMap>>, Context(1, 1, 110))

\* a handler that is in no call
NoCall ==
    [pc |-> "idle", k |-> 0, request |-> NoRequest, player_stats |-> <<>>,
     acc |-> NoAcc, predictions |-> EmptyMap]

\* the model files of a later training run: regressors that answer otherwise
RetrainedFile(target) ==
    Package(target, Regressor(target, _get_features_for_target(target), TuneOf(target) + 1),
            _get_features_for_target(target))

ServeInit ==
    /\ disk_models = [t \in Targets |-> GoodFile(t)]
    /\ disk_metrics \in MetricsFiles
    /\ disk_ensemble \in EnsembleFiles
    /\ models = NewPredictor.models
    /\ feature_sets = NewPredictor.feature_sets
    /\ metrics = NewPredictor.metrics
    /\ _models_loaded = NewPredictor._models_loaded
    /\ points_ensemble = NewPredictor.points_ensemble
    /\ _ensemble_loaded = NewPredictor._ensemble_loaded
    /\ Idle
    /\ calls = [h \in Handlers |-> NoCall]

\* the service loads the artifacts at startup
ServeLoad ==
    /\ ~_models_loaded
    /\ SetSelf(load_models(Self).self)
    /\ UNCHANGED <<disk_vars, pr_pc, predictions, model_input, served_by, raw_preds, request,
                   train_input, fitted, calls>>
    /\ UNCHANGED not_serve

\* a training job of another process writes new model files and metrics
Republish ==
    /\ disk_models = [t \in Targets |-> GoodFile(t)]
    /\ disk_models' = [t \in Targets |-> RetrainedFile(t)]
    /\ disk_metrics' = MetricsFile([t \in Targets |-> ("mae" :> RInt(1))])
    /\ UNCHANGED <<disk_ensemble, obj_vars, out_vars, calls>>
    /\ UNCHANGED not_serve

\* handler h is in predict, as far as create_features and latest
CallStarted(h, ld, df, req) ==
    /\ SetSelf(ld.self)
    /\ calls' = [calls EXCEPT ![h] =
          IF ~ld.ok
          THEN [NoCall EXCEPT !.pc = "not_loaded", !.request = req,
                              !.player_stats = req.player_stats]
          ELSE IF Len(df) = 0
          THEN [NoCall EXCEPT !.pc = "no_history", !.request = req,
                              !.player_stats = req.player_stats]
          ELSE [NoCall EXCEPT !.pc = "loop", !.request = req,
                              !.player_stats = req.player_stats,
                              !.acc = PredictStart(ld.self, df, req.ctx)]]

\* handler h calls predict: load_models, create_features, latest
CallBegin ==
    /\ \E h \in Handlers, player_stats \in ServeHistories, position \in ServePositions,
          ctx \in ServeContexts :
          /\ calls[h].pc = "idle"
          /\ CallStarted(h, load_models(Self), FeatureFrames[player_stats],
                         [player_stats |-> player_stats, position |-> position, ctx |-> ctx])
    /\ UNCHANGED <<disk_vars, pr_pc, predictions, model_input, served_by, raw_preds, request,
                   train_input, fitted>>
    /\ UNCHANGED not_serve

\* handler h has gone through one more target and holds acc
CallStepped(h, acc) ==
    calls' = [calls EXCEPT ![h] =
        IF acc.raised THEN [@ EXCEPT !.pc = "raised", !.acc = acc]
        ELSE IF @.k + 1 = Len(target_columns)
        THEN [@ EXCEPT !.pc = "returned", !.k = @ + 1, !.acc = acc,
                       !.predictions = acc.predictions]
        ELSE [@ EXCEPT !.k = @ + 1, !.acc = acc]]

\* one pass of the loop of predict in handler h
CallStep ==
    /\ \E h \in Handlers :
          /\ calls[h].pc = "loop"
          /\ CallStepped(h, PredictTarget(Self, calls[h].request.position, calls[h].acc,
                                          target_columns[calls[h].k + 1]))
    /\ UNCHANGED pr_vars
    /\ UNCHANGED not_serve

\* the caller of handler h takes the result
CallEnd ==
    /\ \E h \in Handlers :
          /\ calls[h].pc \in {"returned", "raised", "no_history", "not_loaded"}
          /\ calls' = [calls EXCEPT ![h] = NoCall]
    /\ UNCHANGED pr_vars
    /\ UNCHANGED not_serve

ServeNext == ServeLoad \/ Republish \/ CallBegin \/ CallStep \/ CallEnd

-----------------------------------------------------------------------------
(* PlayerComparator *)

\* one pass of the loop of _load_models: the file of stat.  A package gives
\* its 'model' and 'features' entries, a bare model comes with no features;
\* the files train writes hold no 'mae' entry, so mae is None (written NaN)
CompareLoadStat(loaded, stat, file) ==
    IF file.kind = "none" \/ file.kind = "corrupt" THEN loaded
    ELSE IF file.kind = "dict"
    THEN Put(loaded, stat, [model |-> file.model, features |-> file.features, mae |-> NaN])
    ELSE Put(loaded, stat, [model |-> file.model, features |-> <<>>, mae |-> NaN])

\* the loop of _load_models after k stats
RECURSIVE CompareLoadStats(_, _, _)
CompareLoadStats(loaded, dir, k) ==
    IF k >= Len(target_columns) THEN loaded
    ELSE CompareLoadStats(CompareLoadStat(loaded, target_columns[k + 1], dir[target_columns[k + 1]]),
                          dir, k + 1)

_load_models(dir) == CompareLoadStats(EmptyMap, dir, 0)

\* model.predict on the bare array player_features[features].values: only
\* the number of columns is checked
AcceptsArray(m, X) == IsModel(m) /\ Len(X.cols) = Len(m.cols)

\* a failed entry: 'prediction' None (written NaN) and the error
NoPrediction(error) == [prediction |-> NaN, error |-> error]

\* one pass of the loop of predict_player_stats
ComparePredictStat(loaded, stat, player_features) ==
    IF stat \notin DOMAIN loaded THEN NoPrediction("model unavailable")
    ELSE LET model_info == loaded[stat]
             missing == SelectSeq(model_info.features, LAMBDA f : f \notin DOMAIN player_features)
         IN  IF Len(missing) > 0 THEN NoPrediction("Missing features")
             ELSE LET X == Select(player_features, model_info.features)
                  IN  IF ~AcceptsArray(model_info.model, X) THEN NoPrediction("raised")
                      ELSE [prediction |-> Round(PyMax(RInt(0), Respond(model_info.model, X)), 10),
                            error |-> ""]

predict_player_stats(loaded, player_features) ==
    [stat \in Targets |-> ComparePredictStat(loaded, stat, player_features)]

\* the comparator's models_dir: per stat, any of the files of that slot
CompareDirs == {d \in [Targets -> UNION {FilesFor(t) : t \in Targets}] :
                   \A t \in Targets : d[t] \in FilesFor(t)}

\* the latest rows of the player data: rows with every engineered column and
\* a row with the raw columns only
CompareRows ==
    {Latest(FeatureFrames[h], c) : h \in PlayerHistories \ {<<>>}, c \in Contexts}
    \cup {h[Len(h)] : h \in PlayerHistories \ {<<>>}}

CmpInit ==
    /\ cmp_pc = "new"
    /\ cmp_dir \in CompareDirs
    /\ cmp_models = EmptyMap
    /\ cmp_features = EmptyMap
    /\ cmp_predictions = EmptyMap

\* PlayerComparator(models_dir)
CmpConstruct ==
    /\ cmp_pc = "new"
    /\ cmp_models' = _load_models(cmp_dir)
    /\ cmp_pc' = "ready"
    /\ UNCHANGED <<cmp_dir, cmp_features, cmp_predictions>>
    /\ UNCHANGED not_cmp

ComparePredicted(player_features) ==
    /\ cmp_features' = player_features
    /\ cmp_predictions' = predict_player_stats(cmp_models, player_features)
    /\ cmp_pc' = "predicted"
    /\ UNCHANGED <<cmp_dir, cmp_models>>

\* comparator.predict_player_stats(player_features)
ComparePredict ==
    /\ cmp_pc = "ready"
    /\ \E player_features \in CompareRows : ComparePredicted(player_features)
    /\ UNCHANGED not_cmp

\* the caller takes the predictions
CompareReturn ==
    /\ cmp_pc = "predicted"
    /\ cmp_pc' = "ready"
    /\ cmp_features' = EmptyMap
    /\ cmp_predictions' = EmptyMap
    /\ UNCHANGED <<cmp_dir, cmp_models>>
    /\ UNCHANGED not_cmp

CmpNext == CmpConstruct \/ ComparePredict \/ CompareReturn

-----------------------------------------------------------------------------
(* SimpleCache *)

Threads == {"t1", "t2"}
Keys == {"a", "b"}
\* the ttl argument of set: None (written 0) or seconds
Ttls == {0, 1}
default_ttl == 2
CacheOps == {"get", "set", "delete", "clear", "cleanup_expired", "size"}

\* a call's return value None
None == 0
NoEntry == [value |-> None, expires_at |-> 0]
NoThread == [pc |-> "idle", op |-> "", key |-> "", value |-> None, at |-> 0,
             ret |-> None, expired |-> FALSE]

\* an expiry test that never fires
Expired_never(now, expires_at) == FALSE

\* now > expires_at
Expired(now, expires_at) == now > expires_at

\* ttl or self._default_ttl
TtlOr(ttl) == IF ttl = 0 THEN default_ttl ELSE ttl

\* the body of get under the lock, reading the clock at now
CacheGet(th, store, now) ==
    IF th.key \notin DOMAIN store
    THEN [store |-> store, th |-> [th EXCEPT !.ret = None, !.at = now]]
    ELSE IF Expired(now, store[th.key].expires_at)
    THEN [store |-> [k \in DOMAIN store \ {th.key} |-> store[k]],
          th |-> [th EXCEPT !.ret = None, !.at = now, !.expired = TRUE]]
    ELSE [store |-> store, th |-> [th EXCEPT !.ret = store[th.key].value, !.at = now]]

\* the body of set: expires_at was computed before the lock was taken
CacheSet(th, store) ==
    [store |-> Put([k \in DOMAIN store \ {th.key} |-> store[k]], th.key,
                   [value |-> th.value, expires_at |-> th.at]),
     th |-> th]

\* the body of delete; True and False are written 1 and 0
CacheDelete(th, store) ==
    IF th.key \in DOMAIN store
    THEN [store |-> [k \in DOMAIN store \ {th.key} |-> store[k]], th |-> [th EXCEPT !.ret = 1]]
    ELSE [store |-> store, th |-> [th EXCEPT !.ret = 0]]

CacheClear(th, store) == [store |-> EmptyMap, th |-> th]

\* the body of cleanup_expired: now was read before the lock was taken
CacheCleanup(th, store) ==
    LET expired_keys == {k \in DOMAIN store : Expired(th.at, store[k].expires_at)}
    IN  [store |-> [k \in DOMAIN store \ expired_keys |-> store[k]],
         th |-> [th EXCEPT !.ret = Cardinality(expired_keys)]]

CacheSize(th, store) == [store |-> store, th |-> [th EXCEPT !.ret = Cardinality(DOMAIN store)]]

\* the body of th's call under the lock
CacheBody(th, store, now) ==
    CASE th.op = "get" -> CacheGet(th, store, now)
      [] th.op = "set" -> CacheSet(th, store)
      [] th.op = "delete" -> CacheDelete(th, store)
      [] th.op = "clear" -> CacheClear(th, store)
      [] th.op = "cleanup_expired" -> CacheCleanup(th, store)
      [] OTHER -> CacheSize(th, store)

\* what the completed call leaves of the latest sets
LatestAfter(th, latest) ==
    CASE th.op = "set" -> [latest EXCEPT ![th.key] = [value |-> th.value, expires_at |-> th.at]]
      [] th.op = "delete" -> [latest EXCEPT ![th.key] = NoEntry]
      [] th.op = "clear" -> [k \in Keys |-> NoEntry]
      [] OTHER -> latest

CacheInit ==
    /\ _cache = EmptyMap
    /\ _lock = "free"
    /\ utcnow = 0
    /\ threads = [t \in Threads |-> NoThread]
    /\ latest_set = [k \in Keys |-> NoEntry]
    /\ set_no = 0

\* what a call does before it takes the lock
CacheCalled(t, op, key, ttl) ==
    /\ op = "set" => set_no < MaxSets
    /\ set_no' = IF op = "set" THEN set_no + 1 ELSE set_no
    /\ threads' = [threads EXCEPT ![t] =
           [pc |-> "acquire", op |-> op,
            key |-> IF op \in {"get", "set", "delete"} THEN key ELSE "",
            value |-> IF op = "set" THEN set_no + 1 ELSE None,
            at |-> CASE op = "set" -> utcnow + TtlOr(ttl)
                     [] op = "cleanup_expired" -> utcnow
                     [] OTHER -> 0,
            ret |-> None, expired |-> FALSE]]
    /\ UNCHANGED <<_cache, _lock, utcnow, latest_set>>

\* a thread calls get, set, delete, clear, cleanup_expired or size
CacheCall ==
    /\ \E t \in Threads, op \in CacheOps, key \in Keys, ttl \in Ttls :
          /\ threads[t].pc = "idle"
          /\ op # "set" => ttl = 0
          /\ op \notin {"get", "set", "delete"} => key = "a"
          /\ CacheCalled(t, op, key, ttl)
    /\ UNCHANGED not_cache

\* with self._lock: entered
CacheAcquire ==
    /\ \E t \in Threads :
          /\ threads[t].pc = "acquire"
          /\ _lock = "free"
          /\ _lock' = t
          /\ threads' = [threads EXCEPT ![t].pc = "locked"]
    /\ UNCHANGED <<_cache, utcnow, latest_set, set_no>>
    /\ UNCHANGED not_cache

CacheRan(t, r) ==
    /\ _cache' = r.store
    /\ threads' = [threads EXCEPT ![t] = [r.th EXCEPT !.pc = "release"]]
    /\ latest_set' = LatestAfter(r.th, latest_set)

\* the body of the with block
CacheRun ==
    /\ \E t \in Threads :
          /\ threads[t].pc = "locked"
          /\ CacheRan(t, CacheBody(threads[t], _cache, utcnow))
    /\ UNCHANGED <<_lock, utcnow, set_no>>
    /\ UNCHANGED not_cache

\* with self._lock: left, and the call returns
CacheRelease ==
    /\ \E t \in Threads :
          /\ threads[t].pc = "release"
          /\ _lock' = "free"
          /\ threads' = [threads EXCEPT ![t] = NoThread]
    /\ UNCHANGED <<_cache, utcnow, latest_set, set_no>>
    /\ UNCHANGED not_cache

\* a second passes
CacheTick ==
    /\ utcnow < MaxClock
    /\ utcnow' = utcnow + 1
    /\ UNCHANGED <<_cache, _lock, threads, latest_set, set_no>>
    /\ UNCHANGED not_cache

CacheNext == CacheCall \/ CacheAcquire \/ CacheRun \/ CacheRelease \/ CacheTick

-----------------------------------------------------------------------------
(* The training routines, row by row.  A frame is the df_clean of a routine: *)
(* sorted by (player_id, game_date), as create_all_features and the          *)
(* create_features of the retraining script leave it, one block of rows per  *)
(* player, a row per game day from the block's first day on.  season_pts_avg *)
(* is the player's scoring level.  A set of rows is, per block, the offsets  *)
(* lo .. hi - 1 of its rows.                                                 *)

Block(player_id, first, n, season_pts_avg) ==
    [player_id |-> player_id, first |-> first, n |-> n, season_pts_avg |-> season_pts_avg]

Frame(blocks, has_date) == [blocks |-> blocks, has_date |-> has_date]

BlocksOf(df) == 1..Len(df.blocks)

\* sum of f over the set S
RECURSIVE SumOver(_, _)
SumOver(f, S) ==
    IF S = {} THEN 0 ELSE LET s == CHOOSE x \in S : TRUE IN f[s] + SumOver(f, S \ {s})

Clamp(v, lo, hi) == Max2(lo, Min2(v, hi))

\* len(df)
FrameLen(df) == SumOver([b \in BlocksOf(df) |-> df.blocks[b].n], BlocksOf(df))

NoRows(df) == [b \in BlocksOf(df) |-> <<0, 0>>]
AllRowsOf(df) == [b \in BlocksOf(df) |-> <<0, df.blocks[b].n>>]
RowCount(rows) == SumOver([b \in DOMAIN rows |-> rows[b][2] - rows[b][1]], DOMAIN rows)
RowsOverlap(a, b) == \E k \in DOMAIN a : Max2(a[k][1], b[k][1]) < Min2(a[k][2], b[k][2])

\* the game days of a set of rows
Days(df, rows) ==
    UNION {{df.blocks[b].first + rows[b][1], df.blocks[b].first + rows[b][2] - 1} :
              b \in {k \in DOMAIN rows : rows[k][1] < rows[k][2]}}
SetMax(S) == CHOOSE x \in S : \A y \in S : y <= x
SetMin(S) == CHOOSE x \in S : \A y \in S : x <= y

\* int(n * 0.8)
SplitIdx(n) == (n * 8) \div 10

\* how many rows of df have a game day before day
RowsBefore(df, day) ==
    SumOver([b \in BlocksOf(df) |-> Clamp(day - df.blocks[b].first, 0, df.blocks[b].n)],
            BlocksOf(df))

\* the blocks that hold a row of game day day
BlocksOn(df, day) ==
    {b \in BlocksOf(df) : df.blocks[b].first <= day /\ day < df.blocks[b].first + df.blocks[b].n}

\* the game day of row split_idx + 1 of df.sort_values('game_date')
CutDay(df, split_idx) ==
    LET days == UNION {df.blocks[b].first .. (df.blocks[b].first + df.blocks[b].n - 1) :
                          b \in BlocksOf(df)}
    IN  CHOOSE d \in days : RowsBefore(df, d) <= split_idx /\ split_idx < RowsBefore(df, d + 1)

\* a split with the first cut[b] rows of every block on the training side
SplitAt(df, mask, cut) ==
    [train |-> [b \in BlocksOf(df) |-> IF b \in mask THEN <<0, cut[b]>> ELSE <<0, 0>>],
     test |-> [b \in BlocksOf(df) |-> IF b \in mask THEN <<cut[b], df.blocks[b].n>> ELSE <<0, 0>>]]

\* df.sort_values('game_date') cut at int(len * 0.8): every row before the
\* cut day is a training row, and of the rows of the cut day those of the
\* blocks in ties, which the sort put first
SortedSplit(df, ties) ==
    LET day == CutDay(df, SplitIdx(FrameLen(df)))
    IN  SplitAt(df, BlocksOf(df),
                [b \in BlocksOf(df) |->
                    Clamp(day - df.blocks[b].first, 0, df.blocks[b].n)
                    + (IF b \in ties THEN 1 ELSE 0)])

\* the orders the sort may leave the rows of the cut day in
TieChoices(df) ==
    LET split_idx == SplitIdx(FrameLen(df))
        day == CutDay(df, split_idx)
    IN  {ties \in SUBSET BlocksOn(df, day) :
            Cardinality(ties) = split_idx - RowsBefore(df, day)}

\* .iloc[:int(len * 0.8)] and .iloc[int(len * 0.8):] of the rows of the
\* blocks in mask, in frame order
PositionalSplit(df, mask) ==
    LET len == SumOver([b \in mask |-> df.blocks[b].n], mask)
        prior == [b \in mask |->
                    SumOver([u \in mask |-> df.blocks[u].n], {u \in mask : u < b})]
    IN  SplitAt(df, mask,
                [b \in mask |-> Clamp(SplitIdx(len) - prior[b], 0, df.blocks[b].n)])

\* train_test_split(test_size=0.2, random_state=42): the sizes; which rows
\* is up to the shuffle
ShuffledSplit(df) ==
    [train |-> NoRows(df), test |-> NoRows(df)]

NoSplit(df) == [train |-> NoRows(df), test |-> NoRows(df)]

NothingFitted(df) ==
    [routine |-> "", outcome |-> "none", shuffled |-> FALSE,
     main |-> NoSplit(df), fit |-> EmptyMap, star |-> NoSplit(df), role |-> NoSplit(df),
     archetype |-> [b \in BlocksOf(df) |-> "none"],
     median_rows |-> NoRows(df)]

\* Step 4 to Step 6 of SafePerformancePredictor.train for one target
PredictorTrainRows(df, ties) ==
    IF FrameLen(df) < 100
    THEN [NothingFitted(df) EXCEPT !.routine = "predictor", !.outcome = "skipped"]
    ELSE LET main == IF df.has_date THEN SortedSplit(df, ties) ELSE ShuffledSplit(df)
         IN  [NothingFitted(df) EXCEPT !.routine = "predictor", !.outcome = "trained",
                                       !.shuffled = ~df.has_date,
                                       !.main = main,
                                       !.fit = "model" :> main.train]

\* a star mask that takes the players at 25 points as well
StarMask_from_25(df) == {b \in BlocksOf(df) : df.blocks[b].season_pts_avg >= 25}

\* the rows of the players _train_archetype_models takes for stars
StarMask(df) == {b \in BlocksOf(df) : df.blocks[b].season_pts_avg > 25}
\* and for role players
RoleMask(df) == {b \in BlocksOf(df) : df.blocks[b].season_pts_avg < 15}

\* _train_archetype_models(df_clean, X, y, available) for one archetype
ArchetypeSplit(df, mask) ==
    IF SumOver([b \in mask |-> df.blocks[b].n], mask) > 100
    THEN PositionalSplit(df, mask)
    ELSE NoSplit(df)

ArchetypeFits(df, fit, star, role) ==
    (IF RowCount(star.train) > 0 THEN "star" :> star.train ELSE EmptyMap)
    @@ (IF RowCount(role.train) > 0 THEN "role" :> role.train ELSE EmptyMap)
    @@ fit

\* the ensemble as train has fitted it when _evaluate_ensemble runs
FittedEnsemble(star, role) ==
    [NewEnsemble EXCEPT
        !.xgb_model = EnsembleModel(0),
        !.lgbm_model = EnsembleModel(1),
        !.star_model = IF RowCount(star.train) > 0 THEN EnsembleModel(2) ELSE NoModel,
        !.role_model = IF RowCount(role.train) > 0 THEN EnsembleModel(3) ELSE NoModel,
        !.features = EnsembleFeatures]

\* which archetype model of ens the model m is
ArchetypeName(ens, m) ==
    IF ~IsModel(m) THEN "none" ELSE IF m = ens.star_model THEN "star" ELSE "role"

\* _evaluate_ensemble: the archetype component predict takes for the rows of
\* every block, ppg = df_test.loc[idx, 'season_pts_avg']
EvaluatedArchetype(df, ens) ==
    [b \in BlocksOf(df) |->
        ArchetypeName(ens, EnsembleArchetype(ens, RInt(df.blocks[b].season_pts_avg)))]

\* EnsemblePointsPredictor.train
EnsembleTrainRows(df, ties) ==
    LET main == IF df.has_date THEN SortedSplit(df, ties) ELSE ShuffledSplit(df)
        star == ArchetypeSplit(df, StarMask(df))
        role == ArchetypeSplit(df, RoleMask(df))
    IN  [routine |-> "ensemble", outcome |-> "trained", shuffled |-> ~df.has_date,
         main |-> main,
         fit |-> ArchetypeFits(df, ("xgb" :> main.train) @@ ("lgbm" :> main.train), star, role),
         star |-> star, role |-> role,
         archetype |-> EvaluatedArchetype(df, FittedEnsemble(star, role)),
         median_rows |-> AllRowsOf(df)]

\* train_model of retrain_with_expanded_data
RetrainRows(df) ==
    IF FrameLen(df) < 1000
    THEN [NothingFitted(df) EXCEPT !.routine = "retrain", !.outcome = "skipped"]
    ELSE LET main == PositionalSplit(df, BlocksOf(df))
         IN  [NothingFitted(df) EXCEPT !.routine = "retrain", !.outcome = "trained",
                                       !.main = main,
                                       !.fit = "model" :> main.train]

\* the frames: one or two players, a few games, a season or many seasons of
\* them, from the first day or from a later one
BlockSizes == {3, 100, 121, 900}
FirstDays == {1, 61}
ScoringLevels == {10, 15, 25, 30}
BlocksFor(player_id) ==
    {Block(player_id, first, n, ppg) : first \in FirstDays, n \in BlockSizes, ppg \in ScoringLevels}
TrainFrames ==
    {Frame(<<b>>, d) : b \in BlocksFor(1), d \in BOOLEAN}
    \cup {Frame(<<a, b>>, d) : a \in BlocksFor(1), b \in BlocksFor(2), d \in BOOLEAN}

NoFrame == Frame(<<>>, FALSE)

FitInit ==
    /\ fit_pc = "ready"
    /\ df_clean \in TrainFrames
    /\ fit_rows = NothingFitted(df_clean)

Fitted(r) ==
    /\ fit_rows' = r
    /\ fit_pc' = "done"
    /\ UNCHANGED df_clean

\* predictor.train(stats_df), one target
PredictorTrain ==
    /\ fit_pc = "ready"
    /\ \E ties \in (IF df_clean.has_date /\ FrameLen(df_clean) >= 100
                    THEN TieChoices(df_clean) ELSE {{}}) :
          Fitted(PredictorTrainRows(df_clean, ties))
    /\ UNCHANGED not_fit

\* ensemble.train(df_clean, features)
EnsembleTrain ==
    /\ fit_pc = "ready"
    /\ \E ties \in (IF df_clean.has_date THEN TieChoices(df_clean) ELSE {{}}) :
          Fitted(EnsembleTrainRows(df_clean, ties))
    /\ UNCHANGED not_fit

\* train_model(df, target, features)
Retrain ==
    /\ fit_pc = "ready"
    /\ Fitted(RetrainRows(df_clean))
    /\ UNCHANGED not_fit

\* the routine has returned
FitReturn ==
    /\ fit_pc = "done"
    /\ fit_pc' = "ready"
    /\ fit_rows' = NothingFitted(df_clean)
    /\ UNCHANGED df_clean
    /\ UNCHANGED not_fit

FitNext == PredictorTrain \/ EnsembleTrain \/ Retrain \/ FitReturn

-----------------------------------------------------------------------------
(* Specifications *)

vars == <<fe_vars, pr_vars, ens_vars, pub_vars, serve_vars, cmp_vars, cache_vars, fit_vars>>

\* the feature pipeline has nothing to transform
FeIdle ==
    /\ stats_df = <<>>
    /\ stats_df2 = <<>>
    /\ feat = <<>>
    /\ feat2 = <<>>
    /\ fe_pc = "off"

\* a fresh predictor over an empty models_dir that is never called
PrIdle ==
    /\ disk_models = [t \in Targets |-> NoFile]
    /\ disk_metrics = NoMetricsFile
    /\ disk_ensemble = NoEnsembleFile
    /\ models = NewPredictor.models
    /\ feature_sets = NewPredictor.feature_sets
    /\ metrics = NewPredictor.metrics
    /\ _models_loaded = NewPredictor._models_loaded
    /\ points_ensemble = NewPredictor.points_ensemble
    /\ _ensemble_loaded = NewPredictor._ensemble_loaded
    /\ Idle

\* no stand-alone ensemble is in use
EnsIdle ==
    /\ ens_disk = NoEnsembleFile
    /\ ens_self = NewEnsemble
    /\ ens_pc = "off"
    /\ ens_ppg = NaN
    /\ ens_result = NoResult

\* no training job is modelled
PubIdle ==
    /\ tr_pc = "off"
    /\ tr_k = 0
    /\ tr_run = NoRun
    /\ tr_table = NoTable
    /\ run_no = 0
    /\ trained_at = [f \in Files |-> 0]
    /\ last_trained = 0
    /\ seen = NotSeen

\* no request handler is modelled
ServeIdle == calls = [h \in Handlers |-> NoCall]

\* no cache is modelled
CacheIdle ==
    /\ _cache = EmptyMap
    /\ _lock = "off"
    /\ utcnow = 0
    /\ threads = [t \in Threads |-> NoThread]
    /\ latest_set = [k \in Keys |-> NoEntry]
    /\ set_no = 0

\* no training routine is followed row by row
FitIdle ==
    /\ fit_pc = "off"
    /\ df_clean = NoFrame
    /\ fit_rows = NothingFitted(NoFrame)

\* no comparator is modelled
CmpIdle ==
    /\ cmp_pc = "off"
    /\ cmp_dir = [t \in Targets |-> NoFile]
    /\ cmp_models = EmptyMap
    /\ cmp_features = EmptyMap
    /\ cmp_predictions = EmptyMap

\* the predictor service
Init == PrInit /\ FeIdle /\ EnsIdle /\ PubIdle /\ ServeIdle /\ CmpIdle /\ CacheIdle /\ FitIdle
Next == LoadModels \/ Train \/ Predict \/ Return
Spec == Init /\ [][Next]_vars

\* the feature pipeline
InitFeat == FeInit /\ PrIdle /\ EnsIdle /\ PubIdle /\ ServeIdle /\ CmpIdle /\ CacheIdle /\ FitIdle
SpecFeat == InitFeat /\ [][FeNext]_vars

\* the points ensemble on its own
InitEns == EnsInit /\ PrIdle /\ FeIdle /\ PubIdle /\ ServeIdle /\ CmpIdle /\ CacheIdle /\ FitIdle

\* publication of artifacts
InitPublish == PubInit /\ FeIdle /\ EnsIdle /\ ServeIdle /\ CmpIdle /\ CacheIdle /\ FitIdle

\* serving
InitServe == ServeInit /\ FeIdle /\ EnsIdle /\ PubIdle /\ CmpIdle /\ CacheIdle /\ FitIdle
SpecServe == InitServe /\ [][ServeNext]_vars
SpecPublish == InitPublish /\ [][PubNext]_vars
SpecEns == InitEns /\ [][EnsNext]_vars

\* the player comparator
InitCompare == CmpInit /\ PrIdle /\ FeIdle /\ EnsIdle /\ PubIdle /\ ServeIdle /\ CacheIdle /\ FitIdle
SpecCompare == InitCompare /\ [][CmpNext]_vars

\* the cache under two threads
InitCache == CacheInit /\ PrIdle /\ FeIdle /\ EnsIdle /\ PubIdle /\ ServeIdle /\ CmpIdle /\ FitIdle
SpecCache == InitCache /\ [][CacheNext]_vars

\* the training routines, row by row
InitFit == FitInit /\ PrIdle /\ FeIdle /\ EnsIdle /\ PubIdle /\ ServeIdle /\ CmpIdle /\ CacheIdle
SpecFit == InitFit /\ [][FitNext]_vars

-----------------------------------------------------------------------------
(* Properties of the feature pipeline *)

\* the rewritten game: its position in the log and in the transform's output
RewrittenIdx == CHOOSE i \in 1..Len(stats_df) : stats_df[i] # stats_df2[i]
RewrittenRow ==
    CHOOSE k \in 1..Len(feat) :
        /\ feat[k]["player_id"] = stats_df[RewrittenIdx]["player_id"]
        /\ feat[k]["game_date"] = stats_df[RewrittenIdx]["game_date"]

\* the rolling, exponentially weighted and expanding columns of each transform
PredLaggedCols == {d.name : d \in PredDerived}
EngineerLaggedCols ==
    SeqToSet(ShotVolumeNames(stats_df)) \cup SeqToSet(EfficiencyNames(stats_df))
    \cup {"season_pts_avg", "season_pts_std"}
    \cup SeqToSet(HistoricalNames) \cup SeqToSet(MomentumNames)

\* rows 1..k of both outputs agree on the columns cols
SameUpTo(k, cols) ==
    \A j \in 1..k : \A c \in cols \cap DOMAIN feat[j] : feat[j][c] = feat2[j][c]

\* C1: no-lookahead.  Rewriting the box score of a game changes no rolling,
\* exponentially weighted or expanding feature of that game, nor of any game
\* before it, in the output of create_features and of PointsFeatureEngineer:
\* those features of game i are a function of games 1..i-1 only.
NoLookahead ==
    /\ fe_pc = "predictor" => SameUpTo(RewrittenRow, PredLaggedCols)
    /\ fe_pc = "engineer" => SameUpTo(RewrittenRow, EngineerLaggedCols)

\* a game with a defined 3-game average is rewritten, and the next game of the
\* same player sees the rewrite in its exponentially weighted average
NoLookaheadWitness ==
    /\ fe_pc = "engineer"
    /\ RewrittenRow > 1
    /\ ~IsNaN(feat[RewrittenRow]["pts_avg_3"])
    /\ ~IsNaN(feat[RewrittenRow]["pts_ema_3"])
    /\ RewrittenRow < Len(feat)
    /\ feat[RewrittenRow + 1]["player_id"] = feat[RewrittenRow]["player_id"]
    /\ feat[RewrittenRow + 1]["pts_ema_3"] # feat2[RewrittenRow + 1]["pts_ema_3"]

\* C2: FeatureVector invariant.  Every feature get_feature_list returns is
\* computable from the games strictly before the row's game: rewriting the box
\* score of a game changes no listed feature of that game or of an earlier one.
FeatureVectorLagged ==
    fe_pc = "engineer" => SameUpTo(RewrittenRow, SeqToSet(get_feature_list(stats_df)))

-----------------------------------------------------------------------------
(* Properties of the predictor service *)

\* the raw box-score column a feature name aggregates, through create_features
AggregatesOf(f) == {d.col : d \in {e \in PredDerived : e.name = f}}

\* a feature list that is isolated to target T: context columns, aggregates
\* of T's own statistic, of minutes and of the shooting percentages
IsolatedList(T, features) ==
    \A k \in 1..Len(features) :
        LET f == features[k]
        IN  /\ f \notin Targets
            /\ \/ f \in SeqToSet(base_feature_columns)
               \/ /\ AggregatesOf(f) # {}
                  /\ AggregatesOf(f) \subseteq ({T, "minutes"} \cup ShootingCols)

\* C3: the feature list of every target, as _get_features_for_target gives it
\* and as train binds it to the target's model in memory and in the saved
\* package, holds no target's current-game column and no aggregate of
\* another target's statistic: only context columns and aggregates of the
\* target's own statistic, of minutes and of the shooting percentages.
TargetIsolation ==
    /\ \A T \in Targets : IsolatedList(T, _get_features_for_target(T))
    /\ pr_pc = "trained" =>
          \A T \in fitted :
              /\ IsolatedList(T, feature_sets[T])
              /\ disk_models[T].target = T
              /\ disk_models[T].features = feature_sets[T]
              /\ models[T].cols = feature_sets[T]

TargetIsolationWitness ==
    /\ pr_pc = "trained"
    /\ fitted = Targets
    /\ "fg_pct_avg_10" \in SeqToSet(feature_sets["points"])
    /\ "reb_avg_5" \in SeqToSet(disk_models["rebounds"].features)

\* the file of slot t is a package that names another target
StoredTargetDiffers(t) ==
    /\ disk_models[t].kind = "dict"
    /\ disk_models[t].target \notin {"", "None", t}

\* C4: while a model file names another target than its slot, a predictor
\* that is not loaded stays not loaded: load_models returns False, predict
\* returns no predictions, and the model of that file is never registered
\* under the slot.
BindingIntegrity ==
    /\ [](\A t \in Targets :
            (StoredTargetDiffers(t) /\ t \in DOMAIN models)
                => models[t] # disk_models[t].model)
    /\ [][(~_models_loaded /\ \E t \in Targets : StoredTargetDiffers(t)) =>
            /\ pr_pc' \notin {"loaded", "returned", "raised", "no_history"}
            /\ pr_pc' \in {"load_failed", "not_loaded"} =>
                  /\ ~_models_loaded'
                  /\ predictions' = EmptyMap
                  /\ \A t \in Targets : StoredTargetDiffers(t) => t \notin DOMAIN models']_vars

BindingIntegrityWitness ==
    /\ pr_pc = "not_loaded"
    /\ StoredTargetDiffers("rebounds")
    /\ DOMAIN models = {"points"}
    /\ \E k \in 1..Len(log) : log[k] = <<"error", "MODEL MISMATCH", "rebounds", "">>

\* C5: after load_models has returned True, the file of every registered
\* slot is a package whose 'target' entry is the slot's name.
LoadedBindingsMatch ==
    pr_pc = "loaded" =>
        \A t \in DOMAIN models :
            disk_models[t].kind = "dict" /\ disk_models[t].target = t

\* r >= 0 for a number r
NonNegative(r) == r[2] > 0 /\ r[1] >= 0
\* a <= b for numbers a, b
Leq(a, b) == ~IsNaN(a) /\ ~IsNaN(b) /\ ~RGt(a, b)

\* C6: every 'predicted' and every 'lower' value predict returns is >= 0.
NonNegativity ==
    pr_pc = "returned" =>
        \A t \in DOMAIN predictions :
            NonNegative(predictions[t].predicted) /\ NonNegative(predictions[t].lower)

\* a negative raw output on the single-regressor path and a zero from the
\* ensemble on a back-to-back game
NonNegativityWitness ==
    /\ pr_pc = "returned"
    /\ DOMAIN predictions = Targets
    /\ served_by["points"] = "ensemble"
    /\ predictions["points"].predicted = RInt(0)
    /\ served_by["assists"] = "single"
    /\ Respond(models["assists"], model_input["assists"]) = Rat(-50, 10)
    /\ predictions["assists"].predicted = RInt(0)

\* C7: in every result of predict, lower <= predicted <= upper and all three
\* lie in the (min, max) box of the request's position and the target.
Bounding ==
    pr_pc = "returned" =>
        \A t \in DOMAIN predictions :
            LET box == BoundsFor(request.position)[t]
                p   == predictions[t]
            IN  /\ Leq(p.lower, p.predicted) /\ Leq(p.predicted, p.upper)
                /\ Leq(box[1], p.lower) /\ Leq(p.upper, box[2])

\* an unknown position, a raw output above the default ceiling and an
\* interval cut at both ends
BoundingWitness ==
    /\ pr_pc = "returned"
    /\ request.position = "None"
    /\ "points" \in DOMAIN predictions
    /\ served_by["points"] = "single"
    /\ Respond(models["points"], model_input["points"]) = RInt(70)
    /\ predictions["points"].predicted = DEFAULT_BOUNDS["points"][2]
    /\ predictions["points"].upper = DEFAULT_BOUNDS["points"][2]
    /\ "assists" \in DOMAIN predictions
    /\ predictions["assists"].lower = RInt(0)
    /\ RGt(predictions["assists"].predicted, RInt(0))

\* the features of target the last train call checked that have a
\* correlation above 0.99 with the target, or a name that contains the
\* target's without avg, season or rolling
LeakingFeatures(target) ==
    {f \in SeqToSet(Present(_get_features_for_target(target), TrainColumns(train_input))) :
        \/ RGt(Correlation(train_input, f, target), Rat(99, 100))
        \/ RLt(Correlation(train_input, f, target), Rat(-99, 100))
        \/ /\ Contains(f, target)
           /\ ~\E q \in {"avg", "season", "rolling"} : Contains(f, q)}

\* C9: train fits and saves no model for a target one of whose candidate
\* features leaks the target.
LeakageIsHardFailure ==
    pr_pc = "trained" =>
        \A t \in Targets :
            (t \in train_input.columns /\ LeakingFeatures(t) # {}) => t \notin fitted

\* the columns predict built for the last request
BuiltColumns ==
    Columns(create_features(request.player_stats)) \cup SeqToSet(base_feature_columns)

\* the feature list stored with what answered for target t
StoredFeatures(t) ==
    IF t \in DOMAIN served_by /\ served_by[t] = "ensemble"
    THEN points_ensemble.features ELSE feature_sets[t]

\* C10: with artifacts whose model was fitted on the stored feature list,
\* predict hands every registered model exactly the stored columns in the
\* stored order, with zero for every column the request's features lack,
\* and returns a prediction for every registered target.
MissingFeaturesZeroFilled ==
    (/\ pr_pc \in {"returned", "raised"}
     /\ \A t \in DOMAIN models : models[t].cols = feature_sets[t]) =>
        \A t \in DOMAIN models :
            /\ t \in DOMAIN predictions
            /\ t \in DOMAIN model_input
            /\ model_input[t].cols = StoredFeatures(t)
            /\ \A c \in SeqToSet(StoredFeatures(t)) \ BuiltColumns :
                  model_input[t].row[c] = RInt(0)

-----------------------------------------------------------------------------
(* Properties of the points ensemble *)

\* the number of components of ens_self that answer for ens_ppg
Available ==
    (IF IsModel(ens_self.xgb_model) THEN 1 ELSE 0)
    + (IF IsModel(ens_self.lgbm_model) THEN 1 ELSE 0)
    + (IF \/ (~IsNaN(ens_ppg) /\ RGt(ens_ppg, RInt(25)) /\ IsModel(ens_self.star_model))
          \/ (~IsNaN(ens_ppg) /\ RLt(ens_ppg, RInt(15)) /\ IsModel(ens_self.role_model))
       THEN 1 ELSE 0)

\* the weights of the components that answered, each divided by their sum
EffectiveWeights ==
    [k \in 1..Len(ens_result.weights) |-> RDiv(ens_result.weights[k], RSum(ens_result.weights))]

\* C8: whatever components are available, the ensemble's predict returns a
\* number >= 0: the fixed default 15 when none is, and otherwise the mean of
\* the components' predictions under the weights 0.4 / 0.4 / 0.2 of the
\* available ones divided by their sum, which sum to 1 (floored at 0).
EnsembleFallback ==
    ens_pc = "predicted" =>
        /\ ens_result.outcome = "ok"
        /\ NonNegative(ens_result.value)
        /\ Len(ens_result.weights) = Available
        /\ Available = 0 => ens_result.value = RInt(15)
        /\ Available > 0 =>
              /\ RSum(EffectiveWeights) = RInt(1)
              /\ ens_result.value =
                    PyMax(RInt(0), RSum([k \in 1..Available |->
                                RMul(ens_result.preds[k], EffectiveWeights[k])]))

\* only the archetype model answers, for a star, with a positive value
EnsembleFallbackWitness ==
    /\ ens_pc = "predicted"
    /\ ens_result.weights = <<Rat(2, 10)>>
    /\ RGt(ens_ppg, RInt(25))
    /\ RGt(ens_result.value, RInt(0))

-----------------------------------------------------------------------------
(* Properties of the predictor service: unavailable models *)

\* the model of target t is entirely unavailable: models_dir has no file for
\* it, or the predictor took its models from a train call that skipped t
TargetUnavailable(t) ==
    \/ disk_models[t].kind = "none"
    \/ (_models_loaded /\ t \notin DOMAIN models)

\* the model of target u is available: in memory, or a package of models_dir
\* bound to u
TargetAvailable(u) ==
    \/ u \in DOMAIN models
    \/ (disk_models[u].kind = "dict" /\ disk_models[u].target = u)

\* the last call was predict on a non-empty history with every raw column
FullHistoryRequest ==
    /\ pr_pc \in {"returned", "raised", "not_loaded"}
    /\ Len(request.player_stats) > 0
    /\ Columns(request.player_stats) = RawColumns

\* the entry of target u in the last result lies in the request's position box
BoundedEntry(u) ==
    /\ u \in DOMAIN predictions
    /\ Leq(BoundsFor(request.position)[u][1], predictions[u].lower)
    /\ Leq(predictions[u].lower, predictions[u].predicted)
    /\ Leq(predictions[u].predicted, predictions[u].upper)
    /\ Leq(predictions[u].upper, BoundsFor(request.position)[u][2])

\* C11: when the model of exactly one target is unavailable (no file, or
\* skipped by train) and the other two are available, predict on a full
\* history returns bounded predictions for exactly the other two targets.
UnavailableTargetOmitted ==
    FullHistoryRequest =>
        \A t \in Targets :
            (TargetUnavailable(t) /\ \A u \in Targets \ {t} :
                                        TargetAvailable(u) /\ ~TargetUnavailable(u)) =>
                /\ DOMAIN predictions = Targets \ {t}
                /\ \A u \in Targets \ {t} : BoundedEntry(u)

\* the half of C11 about a target train skipped: the predictor that ran the
\* training serves the other two
SkippedTargetOmitted ==
    (FullHistoryRequest /\ _models_loaded) =>
        \A t \in Targets :
            (DOMAIN models = Targets \ {t}) =>
                /\ DOMAIN predictions = Targets \ {t}
                /\ \A u \in Targets \ {t} : BoundedEntry(u)

SkippedTargetOmittedWitness ==
    /\ FullHistoryRequest
    /\ _models_loaded
    /\ DOMAIN models = {"rebounds", "assists"}
    /\ DOMAIN predictions = {"rebounds", "assists"}

-----------------------------------------------------------------------------
(* Properties of the predictor service: data errors in train *)

\* table has a data error for target t: the target column is missing, has no
\* valid value or a negative one, fewer than 3 of the target's features are
\* columns of the feature frame, or fewer than 100 rows are clean
DataError(table, t) ==
    \/ t \notin table.columns
    \/ table.defect[t].n = 0
    \/ table.defect[t].min < 0
    \/ Len(Present(_get_features_for_target(t), TrainColumns(table))) < 3
    \/ table.clean_rows[t] < 100

\* C12: a train call leaves the file of every target with a data error as it
\* was and reports no metrics for it, in memory or in metrics.joblib; for
\* every other target it writes a package bound to the target that holds the
\* model it has just registered, and reports the target's metrics.
TargetFailureIsolated ==
    [][(pr_pc = "idle" /\ pr_pc' = "trained") =>
        \A t \in Targets :
            IF DataError(train_input', t)
            THEN /\ disk_models'[t] = disk_models[t]
                 /\ t \notin fitted'
                 /\ t \notin DOMAIN metrics'
                 /\ t \notin DOMAIN disk_metrics'.data
            ELSE /\ t \in fitted'
                 /\ disk_models'[t].kind = "dict"
                 /\ disk_models'[t].target = t
                 /\ disk_models'[t].model = models'[t]
                 /\ models'[t].fit_for = t
                 /\ "mae" \in DOMAIN metrics'[t]
                 /\ disk_metrics'.data = metrics']_vars

\* rebounds has one clean row too few and assists just enough: points and
\* assists are trained and reported, the rebounds slot keeps no file
TargetFailureIsolatedWitness ==
    /\ pr_pc = "trained"
    /\ train_input.clean_rows["rebounds"] = 99
    /\ fitted = {"points", "assists"}
    /\ DOMAIN disk_metrics.data = {"points", "assists"}
    /\ disk_models["rebounds"].kind = "none"
    /\ disk_models["assists"].model = models["assists"]
    /\ \E k \in 1..Len(log) : log[k] = <<"warning", "Insufficient data", "rebounds", "">>

-----------------------------------------------------------------------------
(* Properties of the publication of artifacts *)

\* C13: while a training run is in progress no file of models_dir bears its
\* stamp, and a predictor that loaded during a run found only files of
\* earlier runs: model files and metrics are published after the run.
PublishedAfterCompletion ==
    /\ tr_pc \in {"loop", "ensemble"} =>
          /\ \A f \in Files : trained_at[f] < run_no
          /\ last_trained < run_no
    /\ (seen.ok /\ seen.during > 0) =>
          /\ \A f \in Files : seen.files[f] < seen.during
          /\ seen.metrics < seen.during

\* the half of C13 about the ensemble artifact: it is written once, when
\* EnsemblePointsPredictor.train has fitted and evaluated every component
EnsemblePublishedWhole ==
    /\ tr_pc = "ensemble" => trained_at["ensemble"] < run_no
    /\ (seen.ok /\ seen.during > 0) => seen.files["ensemble"] < seen.during

EnsemblePublishedWholeWitness ==
    /\ seen.ok
    /\ seen.during = 2
    /\ tr_pc = "ensemble"
    /\ trained_at["ensemble"] = 1

-----------------------------------------------------------------------------
(* Properties of serving *)

\* what one uninterrupted predict call on the loaded predictor returns for
\* the request of handler h
ServedAlone(h) ==
    PredictFrame(Self, FeatureFrames[calls[h].request.player_stats],
                 calls[h].request.position, calls[h].request.ctx)

\* C14: once the artifacts are loaded, no step of a predict call changes the
\* predictor's models, feature lists, metrics or ensemble; a call that has
\* finished returned what an uninterrupted call on the same history, position
\* and context returns, whatever calls it was interleaved with and whatever
\* was written to models_dir meanwhile; and the caller's table is as it was.
ReferentialTransparency ==
    /\ [](_models_loaded =>
            \A h \in Handlers :
                /\ calls[h].pc \in {"returned", "raised"} =>
                      /\ calls[h].pc = ServedAlone(h).outcome
                      /\ calls[h].pc = "returned" =>
                            calls[h].predictions = ServedAlone(h).predictions
                /\ calls[h].player_stats = calls[h].request.player_stats
                /\ \A g \in Handlers :
                      (/\ calls[h].pc = "returned" /\ calls[g].pc = "returned"
                       /\ calls[h].request = calls[g].request) =>
                          calls[h].predictions = calls[g].predictions)
    /\ [][_models_loaded =>
            /\ models' = models
            /\ feature_sets' = feature_sets
            /\ metrics' = metrics
            /\ points_ensemble' = points_ensemble
            /\ _ensemble_loaded' = _ensemble_loaded
            /\ _models_loaded']_vars

\* two interleaved calls with the same request have returned the same
\* predictions, served by the ensemble, after models_dir was rewritten
ReferentialTransparencyWitness ==
    /\ _models_loaded
    /\ disk_models # [t \in Targets |-> GoodFile(t)]
    /\ calls["h1"].pc = "returned"
    /\ calls["h2"].pc = "returned"
    /\ calls["h1"].request = calls["h2"].request
    /\ DOMAIN calls["h1"].predictions = Targets
    /\ "points" \in DOMAIN calls["h1"].acc.served
    /\ calls["h1"].acc.served["points"] = "ensemble"
    /\ calls["h1"].acc.latest # Latest(FeatureFrames[calls["h1"].request.player_stats],
                                       calls["h1"].request.ctx)

-----------------------------------------------------------------------------
(* Properties of the feature pipeline: short histories *)

\* the rolling-average columns of PointsFeatureEngineer: name, the column
\* averaged and the window
EngineerRolling ==
    {[name |-> WinName("pts_avg", w), col |-> "points", window |-> w] : w \in HistWindows}
    \cup {[name |-> WinName("min_avg", w), col |-> "minutes", window |-> w] : w \in {3, 5, 10}}
    \cup {[name |-> WinName("pts_per_min_avg", w), col |-> "pts_per_min", window |-> w]
            : w \in {3, 5, 10}}
    \cup {[name |-> WinName("fg_pct_avg", w), col |-> "fg_pct", window |-> w] : w \in {3, 5, 10}}
    \cup {[name |-> WinName("fg3_pct_avg", w), col |-> "fg3_pct", window |-> w] : w \in {5, 10}}
    \cup {[name |-> "ft_pct_avg_10", col |-> "ft_pct", window |-> 10]}

PlayersOf(df) == {df[i]["player_id"] : i \in 1..Len(df)}

\* the values of column col in the games of row i's player before row i
PriorValues(df, i, col) ==
    LET idx == SelectSeq(SelectIdx(df, df[i]["player_id"], 1), LAMBDA j : j < i)
    IN  [n \in 1..Len(idx) |-> df[idx[n]][col]]

\* row i of df has k prior games, 1 <= k < window, and column d.name is the
\* mean of all k of them
ShortWindowFilled(df, i, d) ==
    LET prior == PriorValues(df, i, d.col)
    IN  (1 <= Len(prior) /\ Len(prior) < d.window) =>
            /\ ~IsNaN(df[i][d.name])
            /\ df[i][d.name] = MeanOf(prior)

-----------------------------------------------------------------------------
(* Properties of the predictor service: clipping *)

GuardPositions == {"PG", "SG", "G"}

\* the last predict logged that it clipped target t
ClipLogged(t) == \E k \in 1..Len(log) : log[k] = <<"info", "Clipped", t, "">>

\* |a - b| > 1
MoreThanOneApart(a, b) == RGt(RSub(a, b), RInt(1)) \/ RGt(RSub(b, a), RInt(1))

\* C16: a raw output of 18 rebounds for a guard is returned as at most 12
\* with a clip record in the log, and for every target of every result,
\* served by a single regressor or by the ensemble, a clip that moved the
\* raw value by more than 1.0 left a clip record in the log.
ClipIsLogged ==
    pr_pc = "returned" =>
        /\ (/\ request.position \in GuardPositions
            /\ "rebounds" \in DOMAIN raw_preds
            /\ raw_preds["rebounds"] = RInt(18)) =>
               /\ Leq(predictions["rebounds"].predicted, RInt(12))
               /\ ClipLogged("rebounds")
        /\ \A t \in DOMAIN predictions :
               LET box == BoundsFor(request.position)[t]
               IN  MoreThanOneApart(ClipToBounds(raw_preds[t], box[1], box[2]), raw_preds[t])
                       => ClipLogged(t)

\* the part of C16 about the single regressors: the guard scenario, and a
\* clip record whenever a single regressor's output moved by more than 1.0
SingleClipIsLogged ==
    pr_pc = "returned" =>
        /\ (/\ request.position \in GuardPositions
            /\ "rebounds" \in DOMAIN raw_preds
            /\ raw_preds["rebounds"] = RInt(18)) =>
               /\ Leq(predictions["rebounds"].predicted, RInt(12))
               /\ ClipLogged("rebounds")
        /\ \A t \in DOMAIN predictions :
               LET box == BoundsFor(request.position)[t]
               IN  (/\ served_by[t] = "single"
                    /\ MoreThanOneApart(ClipToBounds(raw_preds[t], box[1], box[2]), raw_preds[t]))
                       => ClipLogged(t)

SingleClipIsLoggedWitness ==
    /\ pr_pc = "returned"
    /\ request.position = "SG"
    /\ "rebounds" \in DOMAIN raw_preds
    /\ raw_preds["rebounds"] = RInt(18)
    /\ predictions["rebounds"].predicted = RInt(12)
    /\ ClipLogged("rebounds")
    /\ ~ClipLogged("assists")

-----------------------------------------------------------------------------
(* Properties of the player comparator *)

\* the file of slot stat is a package that names another target
CompareTargetDiffers(stat) ==
    /\ cmp_dir[stat].kind = "dict"
    /\ cmp_dir[stat].target \notin {"", "None", stat}

\* C17: the comparator registers no file whose stored target name disagrees
\* with the stat slot it is loaded into, and predict_player_stats computes
\* no stat from such a file.
ComparatorBindingIntegrity ==
    /\ \A stat \in DOMAIN cmp_models : ~CompareTargetDiffers(stat)
    /\ cmp_pc = "predicted" =>
           \A stat \in Targets :
               cmp_predictions[stat].error = "" => ~CompareTargetDiffers(stat)

-----------------------------------------------------------------------------
(* Properties of the cache *)

\* thread t has run the body of a get and still holds the lock
GetRan(t) == threads[t].op = "get" /\ threads[t].pc = "release"

-----------------------------------------------------------------------------
(* Properties of the training routines *)

\* the split sp of the rows of df is chronological: the training side is
\* the earliest int(0.8 * n) of its rows
Chronological(df, sp) ==
    LET n == RowCount(sp.train) + RowCount(sp.test)
    IN  /\ RowCount(sp.train) = SplitIdx(n)
        /\ (RowCount(sp.train) > 0 /\ RowCount(sp.test) > 0) =>
               SetMax(Days(df, sp.train)) <= SetMin(Days(df, sp.test))

\* C19: with a game date in the frame, the split of every training routine
\* that has trained, and the split of each archetype sub-model, puts the
\* earliest int(0.8 * n) rows by date on the training side: no training row
\* is later than a test row.
ChronologicalSplit ==
    (fit_pc = "done" /\ fit_rows.outcome = "trained" /\ df_clean.has_date) =>
        /\ Chronological(df_clean, fit_rows.main)
        /\ Chronological(df_clean, fit_rows.star)
        /\ Chronological(df_clean, fit_rows.role)

\* the part of C19 that holds: the main split of SafePerformancePredictor.train
\* and of EnsemblePointsPredictor.train
SortedSplitChronological ==
    (/\ fit_pc = "done"
     /\ fit_rows.outcome = "trained"
     /\ df_clean.has_date
     /\ fit_rows.routine \in {"predictor", "ensemble"}) =>
        Chronological(df_clean, fit_rows.main)

\* two players whose seasons overlap, split by date
SortedSplitChronologicalWitness ==
    /\ fit_pc = "done"
    /\ fit_rows.routine = "ensemble"
    /\ df_clean.has_date
    /\ Len(df_clean.blocks) = 2
    /\ \A b \in BlocksOf(df_clean) :
          /\ 0 < fit_rows.main.train[b][2]
          /\ fit_rows.main.test[b][1] < fit_rows.main.test[b][2]
          /\ fit_rows.main.train[b][2] < df_clean.blocks[b].n

\* C20: no held-out row of the ensemble's split is a row an ensemble
\* component was fit_rows on, the star and role regressors included, or a row
\* the fill median was computed from.
HeldOutIsolation ==
    (/\ fit_pc = "done"
     /\ fit_rows.routine = "ensemble"
     /\ df_clean.has_date) =>
        /\ \A c \in DOMAIN fit_rows.fit : ~RowsOverlap(fit_rows.fit[c], fit_rows.main.test)
        /\ ~RowsOverlap(fit_rows.median_rows, fit_rows.main.test)

\* the part of C20 that holds: the XGBoost and LightGBM components
MainComponentsIsolated ==
    (/\ fit_pc = "done"
     /\ fit_rows.routine = "ensemble"
     /\ df_clean.has_date) =>
        \A c \in DOMAIN fit_rows.fit \cap {"xgb", "lgbm"} :
            ~RowsOverlap(fit_rows.fit[c], fit_rows.main.test)

MainComponentsIsolatedWitness ==
    /\ fit_pc = "done"
    /\ fit_rows.routine = "ensemble"
    /\ df_clean.has_date
    /\ {"xgb", "lgbm", "star"} \subseteq DOMAIN fit_rows.fit
    /\ RowCount(fit_rows.main.test) > 0
    /\ RowsOverlap(fit_rows.fit["star"], fit_rows.main.test)

-----------------------------------------------------------------------------
(* Properties of the feature pipeline: the combined table *)

\* the rows of the output that are games of another player than the
\* rewritten game's
OtherPlayersRows ==
    {k \in 1..Len(feat) : feat[k]["player_id"] # stats_df[RewrittenIdx]["player_id"]}

\* C21: in the output of create_features on the combined table of several
\* players, the rolling and season features of a row are computed from
\* earlier games of the row's player only: rewriting the box score of a game
\* changes no such feature of any game of another player.
PerPlayerWindows ==
    fe_pc = "predictor" =>
        \A k \in OtherPlayersRows :
            \A c \in PredLaggedCols \cap DOMAIN feat[k] : feat[k][c] = feat2[k][c]

-----------------------------------------------------------------------------
(* Properties of the feature pipeline: first games *)

\* row i of df is the first game of its player's record
FirstGame(df, i) ==
    \A j \in 1..Len(df) :
        df[j]["player_id"] = df[i]["player_id"] => ~RLt(df[j]["game_date"], df[i]["game_date"])

\* the game of row is the first game of its player in the log
FirstGameOf(games, row) ==
    \A j \in 1..Len(games) :
        games[j]["player_id"] = row["player_id"]
            => ~RLt(games[j]["game_date"], row["game_date"])

\* C22: after create_all_features every lagged feature of the first game of
\* a player's record is missing; no first game is left once the rows that
\* miss a core feature are dropped, and none is among the rows the ensemble
\* is fitted and evaluated on.
FirstGamePolicy ==
    /\ fe_pc = "engineer" =>
          /\ \A i \in 1..Len(feat) :
                FirstGame(feat, i) =>
                    \A c \in EngineerLaggedCols \cap DOMAIN feat[i] : Missing(feat[i][c], c)
          /\ LET kept == DropNa(feat, SeqToSet(core_features))
             IN  \A k \in 1..Len(kept) : ~FirstGameOf(stats_df, kept[k])
    /\ fe_pc = "clean" =>
          /\ \A k \in 1..Len(feat) : ~FirstGameOf(stats_df, feat[k])
          /\ \A k \in 1..Len(feat2) : ~FirstGameOf(stats_df2, feat2[k])

\* a player's first game is dropped and a later game of the player is among
\* the rows the ensemble trains on
FirstGamePolicyWitness ==
    /\ fe_pc = "clean"
    /\ Len(feat) >= 1
    /\ \E j \in 1..Len(stats_df) :
          /\ FirstGame(stats_df, j)
          /\ stats_df[j]["player_id"] = feat[1]["player_id"]
          /\ RLt(stats_df[j]["game_date"], feat[1]["game_date"])

-----------------------------------------------------------------------------
(* Properties of the predictor service: target sanity in train *)

\* lg holds a record of the level and message for target
Logged(lg, level, message, target) ==
    \E k \in 1..Len(lg) : lg[k][1] = level /\ lg[k][2] = message /\ lg[k][3] = target

\* the target column is absent, has no non-missing value or a negative one
Rejected(table, t) ==
    \/ t \notin table.columns
    \/ table.defect[t].n = 0
    \/ table.defect[t].min < 0

\* the target column has a value above points 100, rebounds 40, assists 30
AboveCeiling(table, t) ==
    table.defect[t].max > (("points" :> 100) @@ ("rebounds" :> 40) @@ ("assists" :> 30))[t]

\* C23: _validate_target_column raises exactly for a target column that is
\* absent, has no non-missing value or holds a negative value, and train then
\* logs the error and fits no model for the target; a column that is accepted
\* is warned about exactly when a value lies above the target's ceiling, and
\* the target is trained as it would be without the warning.
TargetSanity ==
    [][(pr_pc = "idle" /\ pr_pc' = "trained") =>
        \A t \in Targets :
            IF Rejected(train_input', t)
            THEN /\ _validate_target_column(train_input', t) = "raise"
                 /\ Logged(log', "error", "Error training", t)
                 /\ ~Logged(log', "warning", "extreme values", t)
                 /\ t \notin fitted'
            ELSE /\ _validate_target_column(train_input', t) = "ok"
                 /\ ~Logged(log', "error", "Error training", t)
                 /\ Logged(log', "warning", "extreme values", t)
                        <=> AboveCeiling(train_input', t)
                 /\ t \in fitted' <=> ~DataError(train_input', t)]_vars

\* a train call that warned about 101 points and 31 assists, did not warn
\* about 40 rebounds, and fitted all three models
TargetSanityWitness ==
    /\ pr_pc = "trained"
    /\ train_input.defect["points"].max = 101
    /\ Logged(log, "warning", "extreme values", "points")
    /\ Logged(log, "warning", "extreme values", "assists")
    /\ ~Logged(log, "warning", "extreme values", "rebounds")
    /\ fitted = Targets

-----------------------------------------------------------------------------
(* Properties of the predictor service: the ensemble is preferred for points *)

\* what answered for points in the last predict call: "ensemble", "single"
\* or "" when nothing did
PointsServedBy(served) == IF "points" \in DOMAIN served THEN served["points"] ELSE ""

\* the same predict call on a predictor that loaded no ensemble
WithoutEnsemble(self, req) ==
    predict([load_models(self).self EXCEPT !._ensemble_loaded = FALSE],
            req.player_stats, req.position, req.ctx)

-----------------------------------------------------------------------------
(* Properties of the predictor service: the prediction context *)

ContextCols == {"is_home", "rest_days", "opponent_def_rating"}

\* the row of the last game played in the feature frame of the request
LastPlayed(req) == FeatureFrames[req.player_stats][Len(req.player_stats)]

\* the frame X handed to a model holds the context ctx, and in every other
\* column what the row last holds (0 where the ensemble added the column)
OverridesOnly(X, ctx, last) ==
    \A c \in SeqToSet(X.cols) :
        X.row[c] = IF c \in ContextCols THEN ctx[c]
                   ELSE IF c \in DOMAIN last THEN last[c]
                   ELSE RInt(0)

\* the frames X and Y hold the same columns and differ in context columns only
SameButContext(X, Y) ==
    /\ X.cols = Y.cols
    /\ \A c \in SeqToSet(X.cols) \ ContextCols : X.row[c] = Y.row[c]

\* C25: in every frame a predict call hands to a model, is_home, rest_days
\* and opponent_def_rating hold the values of the call and every other column
\* holds what the last row of the feature frame holds; a second call with the
\* same history and position and another context (a home game without rest
\* against a 110 defence, an away game after 3 days against a 118 defence)
\* hands frames to the same models that differ from the first call's in these
\* three columns only.
ContextOverride ==
    (pr_pc \in {"returned", "raised"} /\ Len(request.player_stats) > 0) =>
        /\ \A t \in DOMAIN model_input :
               OverridesOnly(model_input[t], request.ctx, LastPlayed(request))
        /\ \A c2 \in {Context(1, 0, 110), Context(0, 3, 118)} :
               LET second == predict(Self, request.player_stats, request.position, c2).inputs
               IN  /\ DOMAIN second = DOMAIN model_input
                   /\ \A t \in DOMAIN model_input : SameButContext(model_input[t], second[t])

\* a call for an away game after 3 days of rest against a 118 defence, on a
\* history whose last game was played at home after 0 days of rest
ContextOverrideWitness ==
    /\ pr_pc = "returned"
    /\ Len(request.player_stats) > 0
    /\ request.ctx = Context(0, 3, 118)
    /\ LastPlayed(request)["is_home"] = RInt(1)
    /\ LastPlayed(request)["rest_days"] # RInt(3)
    /\ DOMAIN model_input = Targets
    /\ \A t \in Targets : model_input[t].row["is_home"] = RInt(0)
    /\ \A t \in Targets : model_input[t].row["rest_days"] = RInt(3)
    /\ model_input["rebounds"].row["opponent_def_rating"] = RInt(118)

-----------------------------------------------------------------------------
(* Properties of the training routines: the archetype models *)

\* the rows of df_clean whose season baseline satisfies Test
BaselineRows(df, Test(_)) ==
    LET S == {b \in BlocksOf(df) : Test(df.blocks[b].season_pts_avg)}
    IN  SumOver([b \in S |-> df.blocks[b].n], S)

\* the archetype component the claim names for baseline ppg (a rational, or
\* NaN for none) when the star and role models are or are not there
ArchetypeFor(ppg, has_star, has_role) ==
    IF IsNaN(ppg) THEN "none"
    ELSE IF ppg[1] > 25 * ppg[2] THEN (IF has_star THEN "star" ELSE "none")
    ELSE IF ppg[1] < 15 * ppg[2] THEN (IF has_role THEN "role" ELSE "none")
    ELSE "none"

\* baselines at inference: none, and values around both thresholds
InferenceBaselines ==
    {NaN, RInt(0), RInt(10), Rat(149, 10), RInt(15), RInt(20), RInt(25), Rat(251, 10), RInt(31)}

\* C26: ensemble.train fits a star model exactly when more than 100 rows of
\* df_clean have a season baseline above 25 and a role model exactly when
\* more than 100 rows have one below 15, and completes either way; its
\* evaluation and every later predict take the star model exactly for a
\* baseline above 25 when a star model was fitted, the role model exactly for
\* a baseline below 15 when a role model was fitted, and no archetype
\* component in every other case.
ArchetypeSpecialization ==
    (fit_pc = "done" /\ fit_rows.routine = "ensemble") =>
        LET has_star == "star" \in DOMAIN fit_rows.fit
            has_role == "role" \in DOMAIN fit_rows.fit
            ens      == FittedEnsemble(fit_rows.star, fit_rows.role)
        IN  /\ fit_rows.outcome = "trained"
            /\ has_star <=> BaselineRows(df_clean, LAMBDA v : v > 25) > 100
            /\ has_role <=> BaselineRows(df_clean, LAMBDA v : v < 15) > 100
            /\ IsModel(ens.star_model) <=> has_star
            /\ IsModel(ens.role_model) <=> has_role
            /\ \A b \in BlocksOf(df_clean) :
                   fit_rows.archetype[b]
                       = ArchetypeFor(RInt(df_clean.blocks[b].season_pts_avg), has_star, has_role)
            /\ \A ppg \in InferenceBaselines :
                   ArchetypeName(ens, EnsembleArchetype(ens, ppg))
                       = ArchetypeFor(ppg, has_star, has_role)

\* a season of a 30-point scorer and three games of a 10-point scorer: a star
\* model and no role model, so the role player's rows are evaluated without
\* an archetype component
ArchetypeSpecializationWitness ==
    /\ fit_pc = "done"
    /\ fit_rows.routine = "ensemble"
    /\ Len(df_clean.blocks) = 2
    /\ df_clean.blocks[1].season_pts_avg = 30 /\ df_clean.blocks[1].n = 121
    /\ df_clean.blocks[2].season_pts_avg = 10 /\ df_clean.blocks[2].n = 3
    /\ DOMAIN fit_rows.fit = {"xgb", "lgbm", "star"}
    /\ fit_rows.archetype = <<"star", "none">>

-----------------------------------------------------------------------------
(* Properties of the predictor service: the confidence interval *)

\* the held-out metrics of the model that answered for target t in the last
\* predict call: those the ensemble package carries, or the entry of t in
\* metrics.joblib
ProducerMetrics(t) ==
    IF served_by[t] = "ensemble"
    THEN IF "ensemble_mae" \in DOMAIN points_ensemble.metrics
         THEN "mae" :> Round(points_ensemble.metrics["ensemble_mae"], 1000)
         ELSE EmptyMap
    ELSE IF disk_metrics.kind = "dict" /\ t \in DOMAIN disk_metrics.data
    THEN disk_metrics.data[t]
    ELSE EmptyMap

\* 1.25 times the held-out MAE of the model that answered, 3.0 without metrics
ProducerStd(t) ==
    IF "mae" \in DOMAIN ProducerMetrics(t)
    THEN RMul(Rat(125, 100), ProducerMetrics(t)["mae"])
    ELSE RInt(3)

\* metrics were stored for the model that answered for t, but no MAE
MaeUnknown(t) == DOMAIN ProducerMetrics(t) # {} /\ "mae" \notin DOMAIN ProducerMetrics(t)

\* C27: for every target of a result, with p the raw output clipped to the
\* position box and s = 1.25 x the held-out MAE of the model that produced
\* it (3.0 when that model has no metrics), the entry is p, max(0, p - 1.96 s)
\* and min(ceiling, p + 1.96 s), each rounded to one decimal.
ConfidenceInterval ==
    pr_pc = "returned" =>
        \A t \in DOMAIN predictions :
            LET box  == BoundsFor(request.position)[t]
                p    == PyMax(box[1], PyMin(raw_preds[t], box[2]))
                half == RMul(Rat(196, 100), ProducerStd(t))
            IN  MaeUnknown(t) \/
                /\ predictions[t].predicted = Round(p, 10)
                /\ predictions[t].lower = Round(PyMax(RInt(0), RSub(p, half)), 10)
                /\ predictions[t].upper = Round(PyMin(box[2], RAdd(p, half)), 10)

-----------------------------------------------------------------------------
(* Properties of the feature pipeline: the history behind a prediction *)

\* the frame predict hands to the regressor of target t on the feature frame
\* df, for a home game after one day of rest
InferenceFrame(df, t) ==
    LET latest == Latest(df, Context(1, 1, 110))
    IN  Select(latest, Present(_get_features_for_target(t), DOMAIN latest))

\* the last game of one player's history of two or more games was rewritten
\* to another line of points, rebounds, assists and minutes
LastGameRewritten ==
    /\ fe_pc = "predictor"
    /\ Len(stats_df) >= 2
    /\ \A i \in 1..Len(stats_df) : stats_df[i]["player_id"] = stats_df[1]["player_id"]
    /\ RewrittenIdx = Len(stats_df)
    /\ \A c \in {"points", "rebounds", "assists", "minutes"} :
           stats_df[Len(stats_df)][c] # stats_df2[Len(stats_df)][c]

\* C28: the feature vector predict builds aggregates the whole history,
\* the most recent game included: when the box score of the last game of a
\* player's history is rewritten, the frame handed to the regressor of every
\* target changes.
InferenceUsesLastGame ==
    LastGameRewritten =>
        \A t \in Targets : InferenceFrame(feat, t) # InferenceFrame(feat2, t)

-----------------------------------------------------------------------------
(* Properties of the predictor service: load_models, all or nothing *)

\* C29: a load_models call that returns False (by itself or at the start of
\* predict) leaves models, feature_sets and metrics as they were before the
\* call; once the predictor is loaded, no later load_models call fails or
\* changes a registered model, feature list or metric.
LoadAllOrNothing ==
    [][/\ (pr_pc = "idle" /\ pr_pc' \in {"load_failed", "not_loaded"}) =>
            /\ models' = models
            /\ feature_sets' = feature_sets
            /\ metrics' = metrics
       /\ (pr_pc = "idle" /\ _models_loaded) =>
            /\ pr_pc' \notin {"load_failed", "not_loaded"}
            /\ pr_pc' = "loaded" =>
                  /\ models' = models
                  /\ feature_sets' = feature_sets
                  /\ metrics' = metrics]_vars

-----------------------------------------------------------------------------
(* Properties of the predictor service: the ensemble's features at inference *)

\* create_all_features over the histories of the requests, tabulated once
EngineeredFrames ==
    Materialize([h \in PlayerHistories \ {<<>>} |-> create_all_features(h)])

\* the value of the ensemble feature f for the upcoming game of req: the
\* supplied context, what create_all_features derives from it, or what it
\* computes from the history
TrainingValue(f, req) ==
    LET eng == EngineeredFrames[req.player_stats]
    IN  IF f \in ContextCols THEN req.ctx[f]
        ELSE IF f = "back_to_back"
        THEN RInt(IF req.ctx["rest_days"] = RInt(0) THEN 1 ELSE 0)
        ELSE eng[Len(eng)][f]

\* C30: when the ensemble has answered for points, every feature of the
\* ensemble's stored list is a column of the feature row predict built
\* (none was added as 0 by the ensemble), and the frame handed to the
\* components holds for it the value of the training transform on the
\* request's history and context; back_to_back agrees with the supplied
\* rest_days.
EnsembleTrainServeConsistent ==
    (/\ pr_pc = "returned"
     /\ "points" \in DOMAIN served_by
     /\ served_by["points"] = "ensemble") =>
        \A f \in SeqToSet(points_ensemble.features) :
            /\ f \in DOMAIN LastPlayed(request) \cup ContextCols
            /\ f \in SeqToSet(model_input["points"].cols)
            /\ model_input["points"].row[f] = TrainingValue(f, request)

====
